---- MODULE Spec2Model ----
(***************************************************************************)
(* A model of caltechlibrary/checkit: the network request layer            *)
(* (checkit/network.py), the TIND query service (checkit/tind.py) and the  *)
(* reconciliation driver (checkit/main_body.py).                           *)
(*                                                                         *)
(* The module holds several specifications over one set of variables; a    *)
(* specification leaves the variables of the other components at their     *)
(* idle values:                                                            *)
(*   SpecTimed   one call of timed_request                                 *)
(*   SpecNet     one top-level call of net                                 *)
(*   SpecJson    one call of Tind._tind_json on a long barcode list        *)
(*   Spec        one run of MainBody (MainBody.run)                        *)
(***************************************************************************)
EXTENDS Integers, Sequences, FiniteSets, TLC

\* Python's None, for each kind of value the model holds.
NoExc == [kind |-> "None", at |-> 0]
NoResponse == [status |-> 0]

(***************************************************************************)
(* checkit/network.py: constants                                           *)
(***************************************************************************)
_MAX_RECURSIVE_CALLS == 10
_MAX_FAILURES == 3
_MAX_RETRIES == 5

\* The HTTP status codes a response may carry (three-digit codes).
MinStatus == 100
MaxStatus == 599
StatusCodes == MinStatus..MaxStatus

\* What the underlying requests.get/post call can raise, by the shape net
\* tells apart: a ConnectionError whose args[0] is a MaxRetryError, a
\* ConnectionError whose args[0] is a ProtocolError with arguments (a
\* connection reset is ProtocolError('Connection aborted.',
\* ConnectionResetError(...))), any other ConnectionError, a ReadTimeout, an
\* InvalidSchema, and any other exception.
ExcKinds == {"ConnectionError_MaxRetryError", "ConnectionError_ProtocolError",
             "ConnectionError_other", "ReadTimeout", "InvalidSchema",
             "Exception_other"}

VARIABLES
    \* ---- timed_request (network.py:68-111)
    tr_pc,        \* "attempt" | "check" | "returned" | "returned_none" | "raised"
    failures,     \* local 'failures'
    retries,      \* local 'retries'
    error,        \* local 'error': NoExc or the exception recorded
    attempts,     \* number of calls of method(url, ...) made so far
    pauses,       \* the arguments of the sleep() calls made, in order
    response,     \* what the call returned: NoResponse or [status |-> code]
    raised,       \* what the call raised: NoExc or an exception
    \* ---- net (network.py:114-207)
    net_pc,       \* "call" (a call of net is about to run) | "done" | "escaped"
    polling,      \* argument 'polling'
    kw_redirect,  \* whether the caller's **kwargs hold 'allow_redirects'
    recursing,    \* argument 'recursing' of the call about to run
    net_requests, \* number of calls of timed_request made
    net_sleeps,   \* the arguments of the sleep() calls made by net, in order
    net_probes,   \* number of calls of network_available made
    req,          \* local 'req' of the last call: NoResponse or a response
    net_result,   \* the pair returned: [resp |-> ..., err |-> ...]
    net_escaped,  \* the exception that left net, or "None"
    net_exc,      \* what the last call of timed_request raised, or "None"
    \* ---- one run of MainBody (main_body.py:79-174) and the Tind object it
    \* ---- creates (tind.py:407-699)
    pc,               \* where the worker thread is
    barcode_list,     \* main_body.py:125, the barcodes read from the input file
    catalog,          \* the remote catalog: barcode -> catalog record id, 0 = no record
    barcodes_to_get,  \* tind.py:424, local of Tind.records
    session,          \* tind.py:419-434, local 'session' of Tind.records; 0 = None
    sessions_created, \* number of requests.Session objects created (tind.py:459)
    handshakes,       \* number of times _tind_session returned a session
    handshake_session,\* the session the handshake returned; 0 = none yet
    http_log,         \* the requests issued through a session object, in order
    net_calls,        \* the calls of net made by the scrape methods, in order
    chunk_lo,         \* tind.py:549, index of the first barcode of the next chunk
    data,             \* tind.py:548, local 'data' of _tind_json
    replies,          \* the data arrays of the replies accepted so far, in order
    last_reply,       \* the reply to the last search request
    cache,            \* TindRecord._cache (tind.py:89): catalog record id -> object
    holdings_data,    \* TindRecord._holdings_data (tind.py:95): catalog record
                      \* id -> the fragment stored, "body" or "empty" ('')
    records_list,     \* tind.py:423, local of Tind.records
    build_idx,        \* tind.py:439, position in json_data of the next TindRecord(...)
    tind_raised,      \* the exception that ended the run's try block, or "None"
    alerts,           \* number of alert_fatal notifications
    informs,          \* the inform notifications of MainBody.run, in order
    exception,        \* MainBody.exception: "None" or the exception's class
    output,           \* the rows written to the output file, in order
    output_written,   \* whether the output file was opened for writing
    env_fault,        \* whether the environment has failed or the user has declined
    \* ---- the login of Tind._tind_session (tind.py:449-523) and the
    \* ---- AccessHandler it asks (access.py:34-77); a user name and
    \* ---- password pair is one value, 0 = None or empty
    user,             \* tind.py:455, locals 'user' and 'pswd' of _tind_session
    acc_user,         \* AccessHandler._user and ._pswd
    use_keyring,      \* AccessHandler._use_keyring
    keyring,          \* the pair stored in the system keyring, 0 = none
    dialog_initial,   \* the initial values handed to the last login dialog
    rejected,         \* the pair the service rejected last, 0 = none
    cred_reply,       \* what the last login dialog gave: "none" before any
    saml_outcome,     \* how the final step of the handshake went: "none" before
    logged_in,        \* tind.py:454, local 'logged_in' of _tind_session
    \* ---- a client of checkit/tind.py that calls Tind.records and reads
    \* ---- properties of the TindRecord objects, in one process
    calls,            \* number of operations the client has started
    op,               \* the client's last operation: its kind, record and field
    filled,           \* the catalog ids of the objects whose _filled is True
    loans_done,       \* ... whose _requester_name, _url, _date are not None
    named,            \* ... whose _requester_name is a non-empty string
    patron_done,      \* ... whose _requester_email and _type are not None
    copies,           \* id -> _copies_not_on_shelf: whether set, and the list
    shelf,            \* the remote holdings: barcode -> status of the copy
    page,             \* what the service answers to the GET of the scrape
                      \* method that runs, if it is sent: status and whether
                      \* the body holds the method's empty marker
    scrape_result,    \* how the last scrape method ended: "none" before any
    \* ---- TindRecord._fill_loan_details on one loan-details page
    loan_pc,          \* where _fill_loan_details is
    loan_rows,        \* the rows of the borrower table after its header row
    loan_idx,         \* the position of 'row' of the loop of tind.py:329
    item_barcode,     \* self.item_barcode of the record being enriched
    requester,        \* self._requester_name, _requester_url, _date_requested
    \* ---- ControlGUI.run: the GUI thread, the worker thread and the
    \* ---- thread that on_cancel_or_quit starts
    gui_pc,           \* where ControlGUI.run is (control.py:151-160)
    top_window,       \* whether wx.GetApp().TopWindow is the main frame
    events,           \* the calls wx.CallAfter has queued for the GUI thread
    worker_pc,        \* where the worker thread is
    requests,         \* number of interface requests the worker has made
    msg_queue,        \* number of items on MessageHandlerGUI._queue
    file_queue,       \* number of items on the return_queue of the last
                      \* open_file or save_file of ControlGUI
    put_count,        \* number of replies put for the worker's last request
    gui_ops,          \* the GUI operations executed so far, and by which thread
    quit_pc           \* where the thread of on_cancel_or_quit is

tr_vars == <<tr_pc, failures, retries, error, attempts, pauses, response, raised>>

net_vars == <<net_pc, polling, kw_redirect, recursing, net_requests, net_sleeps,
              net_probes, req, net_result, net_escaped, net_exc>>

run_vars == <<pc, barcode_list, catalog, barcodes_to_get, session,
              sessions_created, handshakes, handshake_session, http_log,
              net_calls, chunk_lo, data, replies, last_reply, cache,
              holdings_data, records_list, build_idx, tind_raised, alerts,
              informs, exception, output, output_written, env_fault,
              user, acc_user, use_keyring, keyring, dialog_initial, rejected,
              cred_reply, saml_outcome, logged_in, calls, op, filled, loans_done, named,
              patron_done, copies, shelf, page, scrape_result,
              loan_pc, loan_rows, loan_idx, item_barcode, requester,
              gui_pc, top_window, events, worker_pc, requests, msg_queue,
              file_queue, put_count, gui_ops, quit_pc>>

vars == <<tr_vars, net_vars, run_vars>>

(***************************************************************************)
(* timed_request                                                           *)
(***************************************************************************)

\* The exception object raised by the k-th attempt: its kind and, as its
\* identity, the attempt that raised it.
Exc(kind, k) == [kind |-> kind, at |-> k]

\* network.py:100-101  'if not error: error = ex' (mutant: keeps the latest)
RecordErrorLatest(err, ex) == ex
RecordError(err, ex) == IF err = NoExc THEN ex ELSE err

\* network.py:108  'sleep(10 * retries * retries)' (mutant: linear back-off)
PauseSecondsLinear(r) == 10 * r
PauseSeconds(r) == 10 * r * r

\* network.py:106  'failures = 0' (mutant: the count is not reset)
FailuresAfterPauseKept(f) == f - 1
FailuresAfterPause(f) == 0

\* network.py:77  the loop test, evaluated after an iteration's body: the
\* loop goes on to the next attempt, or falls out and the function returns
\* without a value.
LoopTest(f) == IF f < _MAX_FAILURES THEN "attempt" ELSE "returned_none"

TimedInit ==
    /\ tr_pc = "attempt"
    /\ failures = 0
    /\ retries = 0
    /\ error = NoExc
    /\ attempts = 0
    /\ pauses = <<>>
    /\ response = NoResponse
    /\ raised = NoExc

TimedIdle ==
    /\ tr_pc = "idle"
    /\ failures = 0
    /\ retries = 0
    /\ error = NoExc
    /\ attempts = 0
    /\ pauses = <<>>
    /\ response = NoResponse
    /\ raised = NoExc

\* network.py:78-92  the attempt succeeds: the response is returned.
TrAttemptReturns ==
    /\ tr_pc = "attempt"
    /\ \E code \in StatusCodes :
          response' = [status |-> code]
    /\ attempts' = attempts + 1
    /\ tr_pc' = "returned"
    /\ UNCHANGED <<failures, retries, error, pauses, raised>>
    /\ UNCHANGED <<net_vars, run_vars>>

\* network.py:93-101  the attempt raises: count it, keep the first error.
TrAttemptRaises ==
    /\ tr_pc = "attempt"
    /\ \E kind \in ExcKinds :
          error' = RecordError(error, Exc(kind, attempts + 1))
    /\ attempts' = attempts + 1
    /\ failures' = failures + 1
    /\ tr_pc' = "check"
    /\ UNCHANGED <<retries, pauses, response, raised>>
    /\ UNCHANGED <<net_vars, run_vars>>

\* network.py:102 false: fewer than _MAX_FAILURES failures, next iteration.
TrContinue ==
    /\ tr_pc = "check"
    /\ failures < _MAX_FAILURES
    /\ tr_pc' = LoopTest(failures)
    /\ UNCHANGED <<failures, retries, error, attempts, pauses, response, raised>>
    /\ UNCHANGED <<net_vars, run_vars>>

\* network.py:102-108  pause with back-off, reset the count, next iteration.
TrBackoff ==
    /\ tr_pc = "check"
    /\ failures >= _MAX_FAILURES
    /\ retries < _MAX_RETRIES
    /\ retries' = retries + 1
    /\ failures' = FailuresAfterPause(failures)
    /\ pauses' = Append(pauses, PauseSeconds(retries + 1))
    /\ tr_pc' = LoopTest(failures')
    /\ UNCHANGED <<error, attempts, response, raised>>
    /\ UNCHANGED <<net_vars, run_vars>>

\* network.py:109-111  no back-off round left: raise the recorded error.
TrRaise ==
    /\ tr_pc = "check"
    /\ failures >= _MAX_FAILURES
    /\ ~ (retries < _MAX_RETRIES)
    /\ raised' = error
    /\ tr_pc' = "raised"
    /\ UNCHANGED <<failures, retries, error, attempts, pauses, response>>
    /\ UNCHANGED <<net_vars, run_vars>>

TimedNext ==
    \/ TrAttemptReturns
    \/ TrAttemptRaises
    \/ TrContinue
    \/ TrBackoff
    \/ TrRaise

(***************************************************************************)
(* net                                                                     *)
(***************************************************************************)

NetIdle ==
    /\ net_pc = "idle"
    /\ polling = FALSE
    /\ kw_redirect = FALSE
    /\ recursing = 0
    /\ net_requests = 0
    /\ net_sleeps = <<>>
    /\ net_probes = 0
    /\ req = NoResponse
    /\ net_result = [resp |-> NoResponse, err |-> "None"]
    /\ net_escaped = "None"
    /\ net_exc = "None"

\* A top-level call net(get_or_post, url, session, polling, **kwargs):
\* 'recursing' has its default 0; the caller chooses 'polling' and whether
\* its keyword arguments hold allow_redirects (tind.py:640, 664, 685 do).
NetInit ==
    /\ net_pc = "call"
    /\ polling \in BOOLEAN
    /\ kw_redirect \in BOOLEAN
    /\ recursing = 0
    /\ net_requests = 0
    /\ net_sleeps = <<>>
    /\ net_probes = 0
    /\ req = NoResponse
    /\ net_result = [resp |-> NoResponse, err |-> "None"]
    /\ net_escaped = "None"
    /\ net_exc = "None"

\* network.py:181-204  the error a status code is classified as, where the
\* result does not depend on 'recursing' ("RateLimit" stands for the branch
\* of code 429, network.py:191-198).
\* (mutant: 451 is missing from the list of network.py:183)
StatusErrorNo451(code, poll) ==
    IF code = 400 THEN "RequestError"
    ELSE IF code \in {401, 402, 403, 407, 511} THEN "AuthFailure"
    ELSE IF code \in {404, 410} /\ ~ poll THEN "NoContent"
    ELSE IF code \in {405, 406, 409, 411, 412, 414, 417, 428, 431, 505, 510}
         THEN "InternalError"
    ELSE IF code \in {415, 416} THEN "ServiceFailure"
    ELSE IF code = 429 THEN "RateLimit"
    ELSE IF code = 503 THEN "ServiceFailure"
    ELSE IF code \in {500, 501, 502, 506, 507, 508} THEN "ServiceFailure"
    ELSE IF ~ (200 <= code /\ code < 400) THEN "NetworkFailure"
    ELSE "None"
StatusError(code, poll) ==
    IF code = 400 THEN "RequestError"
    ELSE IF code \in {401, 402, 403, 407, 451, 511} THEN "AuthFailure"
    ELSE IF code \in {404, 410} /\ ~ poll THEN "NoContent"
    ELSE IF code \in {405, 406, 409, 411, 412, 414, 417, 428, 431, 505, 510}
         THEN "InternalError"
    ELSE IF code \in {415, 416} THEN "ServiceFailure"
    ELSE IF code = 429 THEN "RateLimit"
    ELSE IF code = 503 THEN "ServiceFailure"
    ELSE IF code \in {500, 501, 502, 506, 507, 508} THEN "ServiceFailure"
    ELSE IF ~ (200 <= code /\ code < 400) THEN "NetworkFailure"
    ELSE "None"

\* network.py:193  'pause = 5 * (recursing + 1)' (mutant: a constant pause)
RateLimitPauseFlat(r) == 5
RateLimitPause(r) == 5 * (r + 1)

\* net returns the pair (resp, err).
NetReturn(resp, err) ==
    /\ net_result' = [resp |-> resp, err |-> err]
    /\ net_pc' = "done"

\* network.py:136, 172-174  the pair net returns to a caller whose keyword
\* arguments hold allow_redirects: no response, and the TypeError of the
\* call expression as the error.
NetCollisionResult == [resp |-> NoResponse, err |-> "TypeError"]

\* network.py:136, 172-174  the caller's keyword arguments hold
\* allow_redirects, which net also passes by name: the call expression
\* raises TypeError (multiple values for keyword argument) before
\* timed_request runs; the last handler returns it with req = None.
NetKeywordCollision ==
    /\ net_pc = "call"
    /\ kw_redirect
    /\ net_result' = NetCollisionResult
    /\ net_pc' = "done"
    /\ UNCHANGED <<polling, kw_redirect, recursing, net_requests, net_sleeps,
                   net_probes, req, net_escaped, net_exc>>
    /\ UNCHANGED <<tr_vars, run_vars>>

\* network.py:137-161  timed_request raises a ConnectionError.
NetConnectionError ==
    /\ net_pc = "call"
    /\ ~ kw_redirect
    /\ net_requests' = net_requests + 1
    /\ \E kind \in {"ConnectionError_MaxRetryError",
                    "ConnectionError_ProtocolError",
                    "ConnectionError_other"},
          unreachable \in BOOLEAN :
          /\ net_exc' = kind
          /\ IF recursing >= _MAX_RECURSIVE_CALLS
             THEN \* 139-141
                  /\ NetReturn(req, "NetworkFailure")
                  /\ UNCHANGED <<net_probes, net_escaped>>
             ELSE IF kind = "ConnectionError_MaxRetryError"
             THEN \* 143-152: every branch returns a NetworkFailure; the
                  \* third test calls network_available
                  /\ NetReturn(req, "NetworkFailure")
                  /\ net_probes' = IF unreachable THEN net_probes
                                   ELSE net_probes + 1
                  /\ UNCHANGED net_escaped
             ELSE IF kind = "ConnectionError_ProtocolError"
             THEN \* 153-154: the test reads the undefined name 'args0';
                  \* the NameError is raised inside the handler and leaves
                  \* net
                  /\ net_escaped' = "NameError"
                  /\ net_pc' = "escaped"
                  /\ UNCHANGED <<net_probes, net_result>>
             ELSE \* 159-161
                  /\ NetReturn(req, "NetworkFailure")
                  /\ UNCHANGED <<net_probes, net_escaped>>
    /\ UNCHANGED <<polling, kw_redirect, recursing, net_sleeps, req>>
    /\ UNCHANGED <<tr_vars, run_vars>>

\* network.py:162-168  timed_request raises a ReadTimeout.
NetReadTimeout ==
    /\ net_pc = "call"
    /\ ~ kw_redirect
    /\ net_requests' = net_requests + 1
    /\ net_probes' = net_probes + 1
    /\ net_exc' = "ReadTimeout"
    /\ \E available \in BOOLEAN :
          NetReturn(req, IF available THEN "ServiceFailure"
                         ELSE "NetworkFailure")
    /\ UNCHANGED <<polling, kw_redirect, recursing, net_sleeps, req, net_escaped>>
    /\ UNCHANGED <<tr_vars, run_vars>>

\* network.py:169-171  timed_request raises an InvalidSchema.
NetInvalidSchema ==
    /\ net_pc = "call"
    /\ ~ kw_redirect
    /\ net_requests' = net_requests + 1
    /\ NetReturn(req, "NetworkFailure")
    /\ net_exc' = "InvalidSchema"
    /\ UNCHANGED <<polling, kw_redirect, recursing, net_sleeps, net_probes, req,
                   net_escaped>>
    /\ UNCHANGED <<tr_vars, run_vars>>

\* network.py:172-174  timed_request raises any other exception: it is
\* returned as the error.
NetOtherException ==
    /\ net_pc = "call"
    /\ ~ kw_redirect
    /\ net_requests' = net_requests + 1
    /\ NetReturn(req, "Exception_other")
    /\ net_exc' = "Exception_other"
    /\ UNCHANGED <<polling, kw_redirect, recursing, net_sleeps, net_probes, req,
                   net_escaped>>
    /\ UNCHANGED <<tr_vars, run_vars>>

\* network.py:191-197  timed_request returns a response with status 429 and
\* recursing < _MAX_RECURSIVE_CALLS: sleep and call net again.
NetRateLimitRetry ==
    /\ net_pc = "call"
    /\ ~ kw_redirect
    /\ recursing < _MAX_RECURSIVE_CALLS
    /\ net_requests' = net_requests + 1
    /\ net_sleeps' = Append(net_sleeps, RateLimitPause(recursing))
    /\ recursing' = recursing + 1
    /\ req' = NoResponse      \* network.py:134 of the call that now starts
    /\ net_exc' = "None"
    /\ UNCHANGED <<net_pc, polling, kw_redirect, net_probes, net_result,
                   net_escaped>>
    /\ UNCHANGED <<tr_vars, run_vars>>

\* network.py:176-207  timed_request returns a response: classify its status
\* code and return the response with the error.
NetResponse ==
    /\ net_pc = "call"
    /\ ~ kw_redirect
    /\ net_requests' = net_requests + 1
    /\ net_exc' = "None"
    /\ \E code \in StatusCodes :
          /\ ~ (code = 429 /\ recursing < _MAX_RECURSIVE_CALLS)
          /\ req' = [status |-> code]
          /\ LET e == StatusError(code, polling)
             IN NetReturn(req', IF e = "RateLimit" THEN "RateLimitExceeded"
                                ELSE e)
    /\ UNCHANGED <<polling, kw_redirect, recursing, net_sleeps, net_probes,
                   net_escaped>>
    /\ UNCHANGED <<tr_vars, run_vars>>

NetNext ==
    \/ NetKeywordCollision
    \/ NetConnectionError
    \/ NetReadTimeout
    \/ NetInvalidSchema
    \/ NetOtherException
    \/ NetRateLimitRetry
    \/ NetResponse

(***************************************************************************)
(* checkit/tind.py and checkit/main_body.py: one run of MainBody           *)
(***************************************************************************)

\* tind.py:549  grouper(barcode_list, 1000)
ChunkSize == 1000

\* Bounds of the run's inputs: the barcodes 1..NumBarcodes, input lists of
\* up to MaxListLen of them (duplicates included), catalog record ids
\* 1..NumTindIds, and at most MaxLogins login attempts in one handshake.
NumBarcodes == 2
MaxListLen == 2
NumTindIds == 2
MaxLogins == 2

\* The longest barcode list handed to _tind_json under SpecJson.
MaxQueryLen == 2500

Range(s) == {s[i] : i \in DOMAIN s}

Min(a, b) == IF a < b THEN a ELSE b

\* The sequences that list every element of the set S once.
Orderings(S) == {p \in [1..Cardinality(S) -> S] : Range(p) = S}

\* All sequences over S of length at most n.
SeqsUpTo(S, n) == UNION {[1..k -> S] : k \in 0..n}

\* The 'data' record the search endpoint holds for a barcode (only the keys
\* the model reads: tind.py:103, 147).
RawRecord(b) == [barcode |-> b, id_bibrec |-> catalog[b]]

\* The barcodes of a search expression that have a record in the catalog.
Matches(codes) == {b \in Range(codes) : catalog[b] # 0}

\* tind.py:549  the tuple grouper yields that starts at index lo of the list
\* (mutant: a chunk of ChunkSize + 1 elements).
ChunkOfOneMore(list, lo) == SubSeq(list, lo, Min(lo + ChunkSize, Len(list)))
ChunkOf(list, lo) == SubSeq(list, lo, Min(lo + ChunkSize - 1, Len(list)))

\* tind.py:552  'data += self._tind_ajax(session, payload)'
\* (mutant: the chunk's result is put in front).
ConcatInFront(d, result) == result \o d
Concat(d, result) == d \o result

\* tind.py:625  'if len(results['data']) != total_records'
\* (mutant: only a surplus of entries is an error).
CountsDisagreeOnlySurplus(total, n) == n > total
CountsDisagree(total, n) == n # total

\* tind.py:610  the session object the AJAX request is posted with
\* (mutant: posted with requests.post, through no session).
AjaxSessionNone(sess) == 0
AjaxSession(sess) == sess

NoReply == [status |-> 0, total |-> 0, n |-> 0]

\* The copies of a record can be on the shelf, on loan or lost.
ShelfStatuses == {"on shelf", "on loan", "lost"}

\* The answers of the service to the GET of a scrape method: a page, a page
\* with the method's empty marker, not found, unavailable.
Pages == {[status |-> 200, marker |-> FALSE], [status |-> 200, marker |-> TRUE],
          [status |-> 404, marker |-> FALSE], [status |-> 503, marker |-> FALSE]}

NoPage == [status |-> 0, marker |-> FALSE]
NoOp == [kind |-> "none", id |-> 0, field |-> "none"]
NoCopies == [set |-> FALSE, list |-> <<>>]

\* The client's variables before any of its operations.
enrich_vars == <<calls, op, filled, loans_done, named, patron_done, copies,
                 shelf>>
scrape_vars == <<page, scrape_result>>
loan_vars == <<loan_pc, loan_rows, loan_idx, item_barcode, requester>>
gui_vars == <<gui_pc, top_window, events, worker_pc, requests, msg_queue,
              file_queue, put_count, gui_ops, quit_pc>>
client_vars == <<enrich_vars, scrape_vars, loan_vars, gui_vars>>
ClientIdle ==
    /\ calls = 0
    /\ op = NoOp
    /\ filled = {}
    /\ loans_done = {}
    /\ named = {}
    /\ patron_done = {}
    /\ copies = [id \in 1..NumTindIds |-> NoCopies]
    /\ shelf = [b \in 1..NumBarcodes |-> "on shelf"]
    /\ page = NoPage
    /\ scrape_result = "none"

\* An exception leaves the try block of main_body.py:130-133 after
\* 'inner' alert_fatal calls were made where it was raised.
\* main_body.py:134-136: ServiceFailure and NetworkFailure get one more
\* alert_fatal and _do_main_work returns, so run goes on to inform('Done.');
\* main_body.py:88-90: UserCancelled is reported with inform;
\* main_body.py:91-95: anything else is stored in self.exception and gets
\* an alert_fatal.
\* (mutant: the exception is swallowed where it was raised and the run
\* goes on from there)
RaiseInTrySwallowed(kind, inner) ==
    /\ tind_raised' = kind
    /\ pc' = pc
    /\ alerts' = alerts + inner
    /\ UNCHANGED <<informs, exception>>
\* (mutant: run has no clause for UserCancelled, 88-90, so that a
\* cancellation is handled as any other exception)
RaiseInTryCancelIsFault(kind, inner) ==
    /\ tind_raised' = kind
    /\ pc' = "done"
    /\ alerts' = alerts + inner + 1
    /\ exception' = kind
    /\ UNCHANGED informs
RaiseInTry(kind, inner) ==
    /\ tind_raised' = kind
    /\ pc' = "done"
    /\ IF kind \in {"ServiceFailure", "NetworkFailure"}
       THEN /\ alerts' = alerts + inner + 1
            /\ informs' = Append(informs, "Done.")
            /\ UNCHANGED exception
       ELSE IF kind = "UserCancelled"
       THEN /\ alerts' = alerts + inner
            /\ informs' = Append(informs, "User cancelled operation -- stopping.")
            /\ UNCHANGED exception
       ELSE /\ alerts' = alerts + inner + 1
            /\ exception' = kind
            /\ UNCHANGED informs

\* A request issued through a session object.
\* (mutant: every request goes with the first session and its session id)
RequestWithFirstSession(kind, sess, codes) ==
    [kind |-> kind, session |-> 1, codes |-> codes]
Request(kind, sess, codes) == [kind |-> kind, session |-> sess, codes |-> codes]

RunIdle ==
    /\ pc = "idle"
    /\ barcode_list = <<>>
    /\ catalog = <<>>
    /\ barcodes_to_get = <<>>
    /\ session = 0
    /\ sessions_created = 0
    /\ handshakes = 0
    /\ handshake_session = 0
    /\ http_log = <<>>
    /\ net_calls = <<>>
    /\ chunk_lo = 1
    /\ data = <<>>
    /\ replies = <<>>
    /\ last_reply = NoReply
    /\ cache = <<>>
    /\ holdings_data = <<>>
    /\ records_list = <<>>
    /\ build_idx = 1
    /\ tind_raised = "None"
    /\ alerts = 0
    /\ informs = <<>>
    /\ exception = "None"
    /\ output = <<>>
    /\ output_written = FALSE
    /\ env_fault = FALSE
    /\ user = 0
    /\ acc_user = 0
    /\ use_keyring = FALSE
    /\ keyring = 0
    /\ dialog_initial = 0
    /\ rejected = 0
    /\ cred_reply = "none"
    /\ saml_outcome = "none"
    /\ logged_in = FALSE
    /\ ClientIdle

\* main_body.py:65-76  a MainBody before run: the input file holds any list
\* of barcodes, the remote catalog any assignment of records to barcodes.
RunInit ==
    /\ pc = "start"
    /\ barcode_list \in SeqsUpTo(1..NumBarcodes, MaxListLen)
    /\ catalog \in [1..NumBarcodes -> 0..NumTindIds]
    /\ barcodes_to_get = <<>>
    /\ session = 0
    /\ sessions_created = 0
    /\ handshakes = 0
    /\ handshake_session = 0
    /\ http_log = <<>>
    /\ net_calls = <<>>
    /\ chunk_lo = 1
    /\ data = <<>>
    /\ replies = <<>>
    /\ last_reply = NoReply
    /\ cache = <<>>
    /\ holdings_data = <<>>
    /\ records_list = <<>>
    /\ build_idx = 1
    /\ tind_raised = "None"
    /\ alerts = 0
    /\ informs = <<>>
    /\ exception = "None"
    /\ output = <<>>
    /\ output_written = FALSE
    /\ env_fault = FALSE
    /\ user = 0
    /\ acc_user = 0
    /\ use_keyring = FALSE
    /\ keyring = 0
    /\ dialog_initial = 0
    /\ rejected = 0
    /\ cred_reply = "none"
    /\ saml_outcome = "none"
    /\ logged_in = FALSE
    /\ ClientIdle

\* The variables of the run that only few actions change.
query_vars == <<chunk_lo, data, replies, last_reply>>
record_vars == <<cache, holdings_data, records_list, build_idx, net_calls>>
file_vars == <<barcode_list, catalog, output, output_written>>
session_vars == <<session, sessions_created, handshakes, handshake_session>>
outcome_vars == <<tind_raised, alerts, informs, exception>>
login_vars == <<user, acc_user, use_keyring, keyring, dialog_initial, rejected,
                cred_reply, saml_outcome, logged_in>>

\* main_body.py:109-125, 91-95  the initial checks and the input file.
MainChecks ==
    /\ pc = "start"
    /\ \E available \in BOOLEAN, infile_ok \in BOOLEAN :
          IF ~ available
          THEN \* 112-113: NetworkFailure outside the try block of 130; run
               \* stores it and calls alert_fatal (91-95)
               /\ exception' = "NetworkFailure"
               /\ alerts' = alerts + 1
               /\ pc' = "done"
               /\ env_fault' = TRUE
               /\ UNCHANGED <<tind_raised, informs>>
          ELSE IF ~ infile_ok
          THEN \* 117-119: no input file; _do_main_work returns, run informs
               /\ informs' = Append(informs, "Done.")
               /\ pc' = "done"
               /\ env_fault' = TRUE
               /\ UNCHANGED <<tind_raised, alerts, exception>>
          ELSE \* 121-125: barcode_list is read from the file
               /\ pc' = "records"
               /\ UNCHANGED <<outcome_vars, env_fault>>
    /\ UNCHANGED <<file_vars, session_vars, query_vars, record_vars,
                   barcodes_to_get, http_log>>
    /\ UNCHANGED <<tr_vars, net_vars, login_vars, client_vars>>

\* main_body.py:131-132, tind.py:419-434  Tind.records(barcode_list): an
\* empty list returns []; no barcode is in Tind._barcodes_cache (nothing
\* ever writes to it), so every barcode is to get, and with session None
\* the handshake starts.
RecordsEntry ==
    /\ pc = "records"
    /\ IF Len(barcode_list) = 0
       THEN /\ pc' = "main_holdings"
            /\ UNCHANGED barcodes_to_get
       ELSE /\ barcodes_to_get' = barcode_list
            /\ pc' = "sess_open"
    /\ UNCHANGED <<file_vars, session_vars, query_vars, record_vars,
                   outcome_vars, http_log, env_fault>>
    /\ UNCHANGED <<tr_vars, net_vars, login_vars, client_vars>>

\* tind.py:457-466, 526-540  one pass of the login loop starts: a new
\* session object, and the GET of the Shibboleth login page through it.
SessOpen ==
    /\ pc = "sess_open"
    /\ sessions_created' = sessions_created + 1
    /\ http_log' = Append(http_log, Request("shib_get", sessions_created', <<>>))
    /\ \E ok \in BOOLEAN :
          IF ok
          THEN /\ pc' = "sess_cred"
               /\ UNCHANGED <<outcome_vars, env_fault>>
          ELSE \* 532-539: the request raised or returned a status >= 300
               /\ RaiseInTry("ServiceFailure", 1)
               /\ env_fault' = TRUE
    /\ UNCHANGED <<file_vars, session, handshakes, handshake_session,
                   query_vars, record_vars, barcodes_to_get>>
    /\ UNCHANGED <<tr_vars, net_vars, login_vars, client_vars>>

\* access.py:57-65  the values name_and_password shows in the login
\* dialog: the arguments if they are not None, else the values the handler
\* holds, and if those are missing and the keyring is used, the keyring's.
DialogInitial(arg, held, use, ring) ==
    LET tmp == IF arg # 0 THEN arg ELSE held
    IN IF tmp = 0 /\ use /\ ring # 0 THEN ring ELSE tmp

\* access.py:69-74  the keyring after the dialog gave the pair 'entered'.
KeyringAfter(use, ring, entered) ==
    IF use /\ ring # entered THEN entered ELSE ring

\* access.py:67-68  name_and_password returns on a cancelled dialog before
\* the assignments of 75-76: self._user and self._pswd stay what they were,
\* whatever the dialog showed.
\* (mutant: the return on cancel comes after the assignments of 75-76)
StoredAfterCancelLate(stored, shown) == shown
StoredAfterCancel(stored, shown) == stored

\* tind.py:468-479, access.py:53-77  the credentials are asked for: the
\* dialog is cancelled, or gives an empty name or password, or gives the
\* values it was shown ("same"), or gives newly typed ones ("new", named by
\* the number of the login attempt).
SessCredentials ==
    /\ pc = "sess_cred"
    /\ LET tmp == DialogInitial(user, acc_user, use_keyring, keyring)
       IN /\ dialog_initial' = tmp
          /\ \E reply \in {"cancel", "empty", "same", "new"} :
                /\ reply = "same" => tmp # 0
                /\ cred_reply' = IF reply \in {"same", "new"} THEN "given"
                                 ELSE reply
                /\ IF reply = "cancel"
                   THEN \* access.py:67-68, tind.py:471-473
                        /\ RaiseInTry("UserCancelled", 0)
                        /\ env_fault' = TRUE
                        /\ acc_user' = StoredAfterCancel(acc_user, tmp)
                        /\ UNCHANGED <<session, chunk_lo, data, user, keyring>>
                   ELSE LET entered == IF reply = "empty" THEN 0
                                       ELSE IF reply = "same" THEN tmp
                                       ELSE sessions_created
                        IN /\ keyring' = KeyringAfter(use_keyring, keyring, entered)
                           /\ acc_user' = entered
                           /\ user' = entered
                           /\ IF entered = 0
                              THEN \* 474-476: _tind_session returns None,
                                   \* which tind.py:434 stores in 'session';
                                   \* tind.py:436 calls _tind_json
                                   /\ session' = 0
                                   /\ pc' = "json"
                                   /\ chunk_lo' = 1
                                   /\ data' = <<>>
                                   /\ env_fault' = TRUE
                                   /\ UNCHANGED outcome_vars
                              ELSE /\ pc' = "sess_e1s1"
                                   /\ UNCHANGED <<outcome_vars, env_fault,
                                                  session, chunk_lo, data>>
    /\ UNCHANGED <<file_vars, sessions_created, handshakes, handshake_session,
                   replies, last_reply, record_vars, barcodes_to_get, http_log>>
    /\ UNCHANGED <<use_keyring, rejected, saml_outcome, logged_in>>
    /\ UNCHANGED <<tr_vars, net_vars, client_vars>>

\* tind.py:481-483  SAML step 1.
SessE1S1 ==
    /\ pc = "sess_e1s1"
    /\ http_log' = Append(http_log, Request("e1s1", sessions_created, <<>>))
    /\ \E ok \in BOOLEAN :
          IF ok
          THEN /\ pc' = "sess_e1s2"
               /\ UNCHANGED <<outcome_vars, env_fault>>
          ELSE /\ RaiseInTry("ServiceFailure", 1)
               /\ env_fault' = TRUE
    /\ UNCHANGED <<file_vars, session_vars, query_vars, record_vars,
                   barcodes_to_get>>
    /\ UNCHANGED <<tr_vars, net_vars, login_vars, client_vars>>

\* tind.py:456-459, 492-494  where the login loop goes on after a rejected
\* login that the user wants to repeat: at the top of the loop body, which
\* creates a session and fetches the login page.
\* (mutant: the loop goes on at the login dialog)
LoopAgainAtDialog == "sess_cred"
LoopAgain == "sess_open"

\* tind.py:494  'user = pswd = None' after a rejected login.
ClearedUser(u) == 0

\* tind.py:485-497  SAML step 2 and the test of its answer: the login is
\* accepted when the answer lacks 'Forgot your password' (str(content) of a
\* bytes value starts with b', so the text is never found at index 0); a
\* rejected login is tried again when the user says so.
SessE1S2 ==
    /\ pc = "sess_e1s2"
    /\ http_log' = Append(http_log, Request("e1s2", sessions_created, <<>>))
    /\ \E ok \in BOOLEAN, forgot \in BOOLEAN, again \in BOOLEAN :
          IF ~ ok
          THEN /\ RaiseInTry("ServiceFailure", 1)
               /\ env_fault' = TRUE
               /\ UNCHANGED <<user, rejected, logged_in>>
          ELSE IF ~ forgot
          THEN \* 489: logged_in is True and the loop ends
               /\ logged_in' = TRUE
               /\ pc' = "sess_saml"
               /\ UNCHANGED <<outcome_vars, env_fault, user, rejected>>
          ELSE IF again
          THEN \* 492-494: the loop runs again
               /\ sessions_created < MaxLogins
               /\ logged_in' = FALSE
               /\ rejected' = user
               /\ user' = ClearedUser(user)
               /\ pc' = LoopAgain
               /\ UNCHANGED <<outcome_vars, env_fault>>
          ELSE \* 495-497
               /\ logged_in' = FALSE
               /\ rejected' = user
               /\ RaiseInTry("UserCancelled", 0)
               /\ env_fault' = TRUE
               /\ UNCHANGED user
    /\ UNCHANGED <<file_vars, session_vars, query_vars, record_vars,
                   barcodes_to_get>>
    /\ UNCHANGED <<acc_user, use_keyring, keyring, dialog_initial, cred_reply,
                   saml_outcome>>
    /\ UNCHANGED <<tr_vars, net_vars, client_vars>>

\* tind.py:499-523, 434-436  the SAML form is read from the answer and
\* posted; on status 200 the session is returned to Tind.records, which
\* goes on to _tind_json. xpath returns a list, never None, so the test of
\* 503 is false and a missing form or input makes the [0] of 507-509 raise
\* IndexError.
SessSaml ==
    /\ pc = "sess_saml"
    /\ \E how \in {"no_form", "no_saml_response", "no_relay_state",
                   "post_raises", "bad_status", "ok"} :
          /\ saml_outcome' = how
          /\ IF how \in {"no_form", "no_saml_response", "no_relay_state"}
             THEN /\ RaiseInTry("IndexError", 0)
                  /\ env_fault' = TRUE
                  /\ UNCHANGED <<http_log, session, handshakes,
                                 handshake_session, chunk_lo, data>>
             ELSE /\ http_log' = Append(http_log,
                                    Request("saml_post", sessions_created, <<>>))
                  /\ IF how = "ok"
                     THEN /\ handshakes' = handshakes + 1
                          /\ handshake_session' = sessions_created
                          /\ session' = sessions_created
                          /\ pc' = "json"
                          /\ chunk_lo' = 1
                          /\ data' = <<>>
                          /\ UNCHANGED <<outcome_vars, env_fault>>
                     ELSE \* 514-521
                          /\ RaiseInTry("ServiceFailure", 1)
                          /\ env_fault' = TRUE
                          /\ UNCHANGED <<session, handshakes, handshake_session,
                                         chunk_lo, data>>
    /\ UNCHANGED <<file_vars, sessions_created, replies, last_reply,
                   record_vars, barcodes_to_get>>
    /\ UNCHANGED <<user, acc_user, use_keyring, keyring, dialog_initial,
                   rejected, cred_reply, logged_in>>
    /\ UNCHANGED <<tr_vars, net_vars, client_vars>>

(***************************************************************************)
(* Tind._tind_json and Tind._tind_ajax                                     *)
(***************************************************************************)

\* tind.py:549-551  the chunk the loop of _tind_json is at.
Codes == ChunkOf(barcodes_to_get, chunk_lo)

\* The loop of _tind_json has a chunk to ask about.
AtChunk ==
    /\ pc = "json"
    /\ chunk_lo <= Len(barcodes_to_get)

\* The search request of the chunk is posted (tind.py:610).
PostSearch ==
    http_log' = Append(http_log, Request("search", AjaxSession(session), Codes))

\* tind.py:610-614  'session' is None (the handshake returned None):
\* session.post raises AttributeError before any request is made, and the
\* handler turns it into a ServiceFailure.
JsonNoSession ==
    /\ AtChunk
    /\ session = 0
    /\ RaiseInTry("ServiceFailure", 1)
    /\ UNCHANGED <<file_vars, session_vars, query_vars, record_vars,
                   barcodes_to_get, http_log, env_fault>>
    /\ UNCHANGED <<tr_vars, net_vars, login_vars, client_vars>>

\* tind.py:608-614  the post raises.
AjaxPostRaises ==
    /\ AtChunk
    /\ session # 0
    /\ PostSearch
    /\ RaiseInTry("ServiceFailure", 1)
    /\ env_fault' = TRUE
    /\ UNCHANGED <<file_vars, session_vars, query_vars, record_vars,
                   barcodes_to_get>>
    /\ UNCHANGED <<tr_vars, net_vars, login_vars, client_vars>>

\* tind.py:615-618  the answer's status is not 200.
AjaxBadStatus ==
    /\ AtChunk
    /\ session # 0
    /\ PostSearch
    /\ \E status \in {404, 410, 503} :
          last_reply' = [status |-> status, total |-> 0, n |-> 0]
    /\ RaiseInTry("ServiceFailure", 1)
    /\ env_fault' = TRUE
    /\ UNCHANGED <<file_vars, session_vars, chunk_lo, data, replies,
                   record_vars, barcodes_to_get>>
    /\ UNCHANGED <<tr_vars, net_vars, login_vars, client_vars>>

\* tind.py:619  the answer's body is not JSON: resp.json() raises a
\* ValueError, which no handler of tind.py catches.
AjaxNotJson ==
    /\ AtChunk
    /\ session # 0
    /\ PostSearch
    /\ last_reply' = [status |-> 200, total |-> 0, n |-> 0]
    /\ RaiseInTry("ValueError", 0)
    /\ env_fault' = TRUE
    /\ UNCHANGED <<file_vars, session_vars, chunk_lo, data, replies,
                   record_vars, barcodes_to_get>>
    /\ UNCHANGED <<tr_vars, net_vars, login_vars, client_vars>>

\* tind.py:620-622  the JSON lacks 'recordsTotal' or 'data'.
AjaxMissingKeys ==
    /\ AtChunk
    /\ session # 0
    /\ PostSearch
    /\ last_reply' = [status |-> 200, total |-> 0, n |-> 0]
    /\ RaiseInTry("InternalError", 1)
    /\ env_fault' = TRUE
    /\ UNCHANGED <<file_vars, session_vars, chunk_lo, data, replies,
                   record_vars, barcodes_to_get>>
    /\ UNCHANGED <<tr_vars, net_vars, login_vars, client_vars>>

\* tind.py:623-632, 552  the JSON holds recordsTotal and data: the records
\* of the chunk's barcodes in the order the service chose, and a total that
\* agrees with the array or is off by one. A disagreement is a
\* ServiceFailure; otherwise the array is added to 'data' and the loop goes
\* to the next chunk.
AjaxReply ==
    /\ AtChunk
    /\ session # 0
    /\ PostSearch
    /\ \E order \in Orderings(Matches(Codes)), off \in {-1, 0, 1} :
          LET result == [i \in DOMAIN order |-> RawRecord(order[i])]
              total == Len(result) + off
          IN /\ total >= 0
             /\ last_reply' = [status |-> 200, total |-> total, n |-> Len(result)]
             /\ IF CountsDisagree(total, Len(result))
                THEN /\ RaiseInTry("ServiceFailure", 1)
                     /\ env_fault' = TRUE
                     /\ UNCHANGED <<chunk_lo, data, replies>>
                ELSE /\ data' = Concat(data, result)
                     /\ replies' = Append(replies, result)
                     /\ chunk_lo' = chunk_lo + Len(Codes)
                     /\ UNCHANGED <<pc, outcome_vars, env_fault>>
    /\ UNCHANGED <<file_vars, session_vars, record_vars, barcodes_to_get>>
    /\ UNCHANGED <<tr_vars, net_vars, login_vars, client_vars>>

\* tind.py:549, 553  no chunk is left: _tind_json returns 'data'.
JsonReturn ==
    /\ pc = "json"
    /\ chunk_lo > Len(barcodes_to_get)
    /\ pc' = "build"
    /\ build_idx' = 1
    /\ UNCHANGED <<file_vars, session_vars, query_vars, cache, holdings_data,
                   records_list, net_calls, outcome_vars, barcodes_to_get,
                   http_log, env_fault>>
    /\ UNCHANGED <<tr_vars, net_vars, login_vars, client_vars>>

(***************************************************************************)
(* Tind.records: the TindRecord objects, and the end of the run            *)
(***************************************************************************)

\* tind.py:437-439  the list comprehension moves to the next entry of
\* json_data, or is done and Tind.records returns (tind.py:446).
AfterRecord ==
    /\ build_idx' = build_idx + 1
    /\ pc' = IF build_idx + 1 > Len(data) THEN "main_holdings" ELSE "build"

\* tind.py:440-444  _tind_json returned an empty list.
RecordsEmpty ==
    /\ pc = "build"
    /\ data = <<>>
    /\ RaiseInTry("ServiceFailure", 1)
    /\ UNCHANGED <<file_vars, session_vars, query_vars, record_vars,
                   barcodes_to_get, http_log, env_fault>>
    /\ UNCHANGED <<tr_vars, net_vars, login_vars, client_vars>>

\* tind.py:114  'hasattr(self._cache[tind_id], '_initialized')'
\* (mutant: the test is never true)
AlreadyInitializedNever(obj) == FALSE
AlreadyInitialized(obj) == obj.initialized

\* tind.py:187-196, 439  __init__ parses the holdings fragment it has and
\* the record is appended to the list of Tind.records. A fragment that is
\* '' gives a document without a body, so that 'soup.body.find_all' of
\* line 188 raises AttributeError; a body with fewer than two tables is
\* passed over (189).
FragmentParsed(fragment, id) ==
    IF fragment = "empty"
    THEN /\ RaiseInTry("AttributeError", 0)
         /\ UNCHANGED <<records_list, build_idx>>
    ELSE /\ records_list' = Append(records_list, id)
         /\ AfterRecord
         /\ UNCHANGED outcome_vars

\* tind.py:98-185  TindRecord(r, self, session) for the next entry r of
\* json_data: __new__ takes the object from TindRecord._cache or puts a new
\* one there; __init__ returns at once when the object is marked
\* initialised, else marks it, sets its fields and needs the holdings
\* fragment: from TindRecord._holdings_data, or from
\* Tind.holdings(tind_id, session), which calls net with session and
\* allow_redirects = True (tind.py:685).
RecordNew ==
    /\ pc = "build"
    /\ data # <<>>
    /\ build_idx <= Len(data)
    /\ LET r == data[build_idx]
           id == r.id_bibrec
           old == IF id \in DOMAIN cache
                  THEN cache[id]
                  ELSE [item_tind_id |-> id, initialized |-> FALSE,
                        item_barcode |-> 0]
           new == [old EXCEPT !.initialized = TRUE, !.item_barcode = r.barcode]
       IN IF AlreadyInitialized(old)
          THEN \* 114-115
               /\ cache' = cache
               /\ records_list' = Append(records_list, id)
               /\ AfterRecord
               /\ UNCHANGED <<net_calls, net_vars, scrape_vars, env_fault,
                              outcome_vars>>
          ELSE /\ cache' = (id :> new) @@ cache
               /\ IF id \in DOMAIN holdings_data
                  THEN \* 182-183, 187-196
                       /\ FragmentParsed(holdings_data[id], id)
                       /\ UNCHANGED <<net_calls, net_vars, scrape_vars, env_fault>>
                  ELSE \* 184-185, 680-685
                       /\ net_calls' = Append(net_calls,
                              [what |-> "holdings", id |-> id, session |-> session])
                       /\ net_pc' = "call"
                       /\ kw_redirect' = TRUE
                       /\ polling' = FALSE
                       /\ recursing' = 0
                       /\ req' = NoResponse
                       /\ pc' = "holdings"
                       /\ page' \in Pages
                       /\ env_fault' = (env_fault \/ page'.status >= 500)
                       /\ scrape_result' = "none"
                       /\ UNCHANGED <<records_list, build_idx, net_requests,
                                      net_sleeps, net_probes, net_result,
                                      net_escaped, net_exc, outcome_vars>>
    /\ UNCHANGED <<file_vars, session_vars, query_vars, holdings_data,
                   barcodes_to_get, http_log>>
    /\ UNCHANGED <<tr_vars, login_vars, enrich_vars, loan_vars, gui_vars>>

\* tind.py:641-650, 665-673, 686-695  what a scrape method does with the
\* pair net returned: a NoContent error gives the empty result, any other
\* error or a missing response is raised (and wrapped in a ServiceFailure
\* after an alert_fatal, 651-654, 674-677, 696-699), else the body is the
\* result, or the empty result when it holds the method's empty marker.
ScrapeOutcome(result, marker) ==
    IF result.err = "NoContent" THEN "empty"
    ELSE IF result.err # "None" \/ result.resp = NoResponse THEN "ServiceFailure"
    ELSE IF marker THEN "empty"
    ELSE "body"

\* tind.py:685-699, 185-196, 439  net has returned to Tind.holdings; when
\* holdings returns, __init__ stores the fragment in
\* TindRecord._holdings_data before it finishes the record.
HoldingsReturn ==
    /\ pc = "holdings"
    /\ net_pc = "done"
    /\ scrape_result' = ScrapeOutcome(net_result, page.marker)
    /\ IF scrape_result' = "ServiceFailure"
       THEN /\ RaiseInTry("ServiceFailure", 1)
            /\ UNCHANGED <<holdings_data, records_list, build_idx>>
       ELSE /\ holdings_data' =
                  (data[build_idx].id_bibrec :> scrape_result') @@ holdings_data
            /\ FragmentParsed(scrape_result', data[build_idx].id_bibrec)
    /\ UNCHANGED <<file_vars, session_vars, query_vars, cache, net_calls,
                   barcodes_to_get, http_log, env_fault>>
    /\ UNCHANGED <<tr_vars, net_vars, login_vars, enrich_vars, page, loan_vars, gui_vars>>

\* main_body.py:133, 91-95  tind.holdings([...]) is a call of
\* Tind.holdings(self, tind_id, session) with one argument: a TypeError,
\* which the except clause of 134 does not catch; run stores it and calls
\* alert_fatal. Nothing after line 133 is executed.
MainHoldings ==
    /\ pc = "main_holdings"
    /\ RaiseInTry("TypeError", 0)
    /\ UNCHANGED <<file_vars, session_vars, query_vars, record_vars,
                   barcodes_to_get, http_log, env_fault>>
    /\ UNCHANGED <<tr_vars, net_vars, login_vars, client_vars>>

\* main_body.py:79-174  one run of MainBody.
Next ==
    \/ MainChecks
    \/ RecordsEntry
    \/ SessOpen
    \/ SessCredentials
    \/ SessE1S1
    \/ SessE1S2
    \/ SessSaml
    \/ JsonNoSession
    \/ AjaxPostRaises
    \/ AjaxBadStatus
    \/ AjaxNotJson
    \/ AjaxMissingKeys
    \/ AjaxReply
    \/ JsonReturn
    \/ RecordsEmpty
    \/ RecordNew
    \/ NetKeywordCollision
    \/ HoldingsReturn
    \/ MainHoldings

\* tind.py:543-553  one call of _tind_json, with the session of a handshake.
JsonNext ==
    \/ AjaxPostRaises
    \/ AjaxBadStatus
    \/ AjaxNotJson
    \/ AjaxMissingKeys
    \/ AjaxReply
    \/ JsonReturn

\* The lengths of the lists _tind_json is called with under SpecJson: the
\* shortest lists and the lengths around the multiples of ChunkSize, up to
\* MaxQueryLen.
JsonLens ==
    {n \in 1..MaxQueryLen :
        n <= 2 \/ n % ChunkSize \in {0, 1, ChunkSize - 1} \/ n = MaxQueryLen}

\* The barcodes of a list of n that may have a record under SpecJson: the
\* first two of the list and the first of each later chunk.
JsonMatchable(n) == {b \in 1..n : b = 2 \/ b % ChunkSize = 1}

\* tind.py:436  Tind.records calls _tind_json(session, barcodes_to_get)
\* after the handshake returned session 1; the list holds the barcodes
\* 1..n, and some of the matchable ones have a record.
JsonInit ==
    /\ pc = "json"
    /\ \E n \in JsonLens :
          /\ barcode_list = [i \in 1..n |-> i]
          /\ \E S \in SUBSET JsonMatchable(n) :
                catalog = [b \in 1..n |-> IF b \in S THEN b ELSE 0]
    /\ barcodes_to_get = barcode_list
    /\ session = 1
    /\ sessions_created = 1
    /\ handshakes = 1
    /\ handshake_session = 1
    /\ http_log = <<>>
    /\ net_calls = <<>>
    /\ chunk_lo = 1
    /\ data = <<>>
    /\ replies = <<>>
    /\ last_reply = NoReply
    /\ cache = <<>>
    /\ holdings_data = <<>>
    /\ records_list = <<>>
    /\ build_idx = 1
    /\ tind_raised = "None"
    /\ alerts = 0
    /\ informs = <<>>
    /\ exception = "None"
    /\ output = <<>>
    /\ output_written = FALSE
    /\ env_fault = FALSE
    /\ user = 1
    /\ acc_user = 1
    /\ use_keyring = FALSE
    /\ keyring = 0
    /\ dialog_initial = 0
    /\ rejected = 0
    /\ cred_reply = "given"
    /\ saml_outcome = "ok"
    /\ logged_in = TRUE
    /\ ClientIdle

\* The pair given on the command line and the pair found in the keyring
\* before the run; the pairs typed into the login dialogs are 1..MaxLogins.
CmdLineCred == MaxLogins + 1
KeyringCred == MaxLogins + 2

\* tind.py:431-434  Tind.records calls _tind_session for one barcode; the
\* AccessHandler was made with or without a user and password, with or
\* without the keyring (access.py:37-41), which holds a pair or not.
SessionInit ==
    /\ pc = "sess_open"
    /\ barcode_list = <<1>>
    /\ catalog = [b \in 1..NumBarcodes |-> 0]
    /\ barcodes_to_get = <<1>>
    /\ session = 0
    /\ sessions_created = 0
    /\ handshakes = 0
    /\ handshake_session = 0
    /\ http_log = <<>>
    /\ net_calls = <<>>
    /\ chunk_lo = 1
    /\ data = <<>>
    /\ replies = <<>>
    /\ last_reply = NoReply
    /\ cache = <<>>
    /\ holdings_data = <<>>
    /\ records_list = <<>>
    /\ build_idx = 1
    /\ tind_raised = "None"
    /\ alerts = 0
    /\ informs = <<>>
    /\ exception = "None"
    /\ output = <<>>
    /\ output_written = FALSE
    /\ env_fault = FALSE
    /\ user = 0
    /\ acc_user \in {0, CmdLineCred}
    /\ use_keyring \in BOOLEAN
    /\ keyring \in {0, KeyringCred}
    /\ dialog_initial = 0
    /\ rejected = 0
    /\ cred_reply = "none"
    /\ saml_outcome = "none"
    /\ logged_in = FALSE
    /\ ClientIdle

\* tind.py:449-523, 434-436  the handshake, and what Tind.records does with
\* a handshake that returned None.
SessionNext ==
    \/ SessOpen
    \/ SessCredentials
    \/ SessE1S1
    \/ SessE1S2
    \/ SessSaml
    \/ JsonNoSession

(***************************************************************************)
(* A client of Tind and TindRecord in one process                          *)
(***************************************************************************)

\* The number of operations of the client.
MaxCalls == 3

\* The catalogs of the client's runs: every barcode is a copy of record 1,
\* or the barcodes are spread over the records.
ClientCatalogs ==
    {[b \in 1..NumBarcodes |-> 1],
     [b \in 1..NumBarcodes |-> IF b <= NumTindIds THEN b ELSE NumTindIds]}

\* The remote holdings of the client's runs: every copy on the shelf, the
\* first copy on loan, or the first copy lost and the others on loan.
ClientShelves ==
    {[b \in 1..NumBarcodes |-> "on shelf"],
     [b \in 1..NumBarcodes |-> IF b = 1 THEN "on loan" ELSE "on shelf"],
     [b \in 1..NumBarcodes |-> IF b = 1 THEN "lost" ELSE "on loan"]}

\* The lists _tind_json returns for the client's queries: the records of
\* one or two of the barcodes, each once, in any order.
JsonData ==
    {[i \in DOMAIN order |-> RawRecord(order[i])] :
        order \in UNION {Orderings(S) :
                            S \in {T \in SUBSET (1..NumBarcodes) :
                                      Cardinality(T) \in {1, 2}}}}

\* The process after a handshake has given session 1: no TindRecord has
\* been made (tind.py:89, 95).
ClientInit ==
    /\ pc = "client"
    /\ barcode_list = <<>>
    /\ catalog \in ClientCatalogs
    /\ barcodes_to_get = <<>>
    /\ session = 1
    /\ sessions_created = 1
    /\ handshakes = 1
    /\ handshake_session = 1
    /\ http_log = <<>>
    /\ net_calls = <<>>
    /\ chunk_lo = 1
    /\ data = <<>>
    /\ replies = <<>>
    /\ last_reply = NoReply
    /\ cache = <<>>
    /\ holdings_data = <<>>
    /\ records_list = <<>>
    /\ build_idx = 1
    /\ tind_raised = "None"
    /\ alerts = 0
    /\ informs = <<>>
    /\ exception = "None"
    /\ output = <<>>
    /\ output_written = FALSE
    /\ env_fault = FALSE
    /\ user = 1
    /\ acc_user = 1
    /\ use_keyring = FALSE
    /\ keyring = 0
    /\ dialog_initial = 0
    /\ rejected = 0
    /\ cred_reply = "given"
    /\ saml_outcome = "ok"
    /\ logged_in = TRUE
    /\ calls = 0
    /\ op = NoOp
    /\ filled = {}
    /\ loans_done = {}
    /\ named = {}
    /\ patron_done = {}
    /\ copies = [id \in 1..NumTindIds |-> NoCopies]
    /\ shelf \in ClientShelves
    /\ page = NoPage
    /\ scrape_result = "none"

\* The client is between two operations: at its start, after an operation
\* has raised ("done"), after Tind.records has returned ("main_holdings")
\* or after a property read has returned ("returned").
ClientReady == pc \in {"client", "done", "main_holdings", "returned"}

\* tind.py:419-439  the client calls Tind.records(barcodes, session) with
\* the session of the handshake, and _tind_json returns json_data for it:
\* records_list starts empty (423) and the list comprehension of 439 starts
\* with the first entry.
ClientRecords ==
    /\ ClientReady
    /\ calls < MaxCalls
    /\ calls' = calls + 1
    /\ data' \in JsonData
    /\ barcodes_to_get' = [i \in DOMAIN data' |-> data'[i].barcode]
    /\ records_list' = <<>>
    /\ build_idx' = 1
    /\ tind_raised' = "None"
    /\ pc' = "build"
    /\ UNCHANGED <<file_vars, session_vars, chunk_lo, replies, last_reply,
                   cache, holdings_data, net_calls, alerts, informs, exception,
                   http_log, env_fault>>
    /\ op' = [kind |-> "records", id |-> 0, field |-> "none"]
    /\ UNCHANGED <<filled, loans_done, named, patron_done, copies, shelf,
                   scrape_vars>>
    /\ UNCHANGED <<tr_vars, net_vars, login_vars, loan_vars, gui_vars>>

\* An exception leaves a property read after 'inner' alert_fatal calls
\* were made where it was raised, and reaches the client.
RaiseToClient(kind, inner) ==
    /\ tind_raised' = kind
    /\ alerts' = alerts + inner
    /\ pc' = "done"
    /\ UNCHANGED <<informs, exception>>

\* tind.py:216-273  the properties that are filled in from the loan details
\* page and from the patron page.
LoanFields == {"requester_name", "requester_url", "date_requested"}
PatronFields == {"requester_email", "requester_type"}

\* tind.py:287  'if self._filled: return' (mutant: the test is never true)
FilledAlreadyNever(f) == FALSE
FilledAlready(f) == f

\* tind.py:288-290  'self._filled = True', before anything else is done
\* (mutant: the mark is not set when the enrichment starts)
MarkedFilledLate(f, id) == f
MarkedFilled(f, id) == f \cup {id}

\* tind.py:216-273, 286-294, 635-640  the client reads one of the requester
\* properties of an object: when the stored value is None,
\* _fill_requester_info runs, and unless the object is marked _filled it
\* marks it and calls Tind.loan_details with the object's session, which
\* calls net with allow_redirects = True; else the stored value is
\* returned.
ReadRequester ==
    /\ ClientReady
    /\ calls < MaxCalls
    /\ calls' = calls + 1
    /\ \E id \in DOMAIN cache, field \in LoanFields \cup PatronFields :
          /\ op' = [kind |-> "read", id |-> id, field |-> field]
          /\ LET is_none == IF field \in LoanFields THEN id \notin loans_done
                            ELSE id \notin patron_done
             IN IF is_none /\ ~ FilledAlready(id \in filled)
                THEN /\ filled' = MarkedFilled(filled, id)
                     /\ net_calls' = Append(net_calls,
                            [what |-> "loan_details", id |-> id,
                             session |-> session])
                     /\ net_pc' = "call"
                     /\ kw_redirect' = TRUE
                     /\ polling' = FALSE
                     /\ recursing' = 0
                     /\ req' = NoResponse
                     /\ page' \in Pages
                     /\ env_fault' = (env_fault \/ page'.status >= 500)
                     /\ scrape_result' = "none"
                     /\ pc' = "loan_details"
                     /\ UNCHANGED <<net_requests, net_sleeps, net_probes,
                                    net_result, net_escaped, net_exc>>
                ELSE /\ pc' = "returned"
                     /\ UNCHANGED <<filled, net_calls, net_vars, scrape_vars,
                                    env_fault>>
    /\ UNCHANGED <<file_vars, session_vars, query_vars, cache, holdings_data,
                   records_list, build_idx, outcome_vars, barcodes_to_get,
                   http_log>>
    /\ UNCHANGED <<loans_done, named, patron_done, copies, shelf>>
    /\ UNCHANGED <<tr_vars, login_vars, loan_vars, gui_vars>>

\* tind.py:640-654, 294-303, 306-372, 657-677  net has returned to
\* Tind.loan_details. An error is raised as ServiceFailure out of the
\* property read. Else _fill_loan_details sets the three loan fields, to
\* the values of a hold request found in the page or to ''; when a
\* requester was found, Tind.patron_details is called, whose call of net
\* with allow_redirects = True returns the TypeError at once, and its
\* outcome either raises or lets _fill_patron_details set the patron
\* fields.
LoanReturn ==
    /\ pc = "loan_details"
    /\ net_pc = "done"
    /\ LET id == op.id
           loans == ScrapeOutcome(net_result, page.marker)
       IN IF loans = "ServiceFailure"
          THEN /\ scrape_result' = loans
               /\ RaiseToClient("ServiceFailure", 1)
               /\ UNCHANGED <<loans_done, named, patron_done, net_calls>>
          ELSE /\ loans_done' = loans_done \cup {id}
               /\ \E hold \in BOOLEAN :
                     IF loans = "body" /\ hold
                     THEN /\ named' = named \cup {id}
                          /\ net_calls' = Append(net_calls,
                                 [what |-> "patron_details", id |-> id,
                                  session |-> session])
                          /\ scrape_result' =
                                 ScrapeOutcome(NetCollisionResult, FALSE)
                          /\ IF scrape_result' = "ServiceFailure"
                             THEN /\ RaiseToClient("ServiceFailure", 1)
                                  /\ UNCHANGED patron_done
                             ELSE /\ patron_done' = patron_done \cup {id}
                                  /\ pc' = "returned"
                                  /\ UNCHANGED outcome_vars
                     ELSE /\ scrape_result' = loans
                          /\ pc' = "returned"
                          /\ UNCHANGED <<named, patron_done, net_calls,
                                         outcome_vars>>
    /\ UNCHANGED <<file_vars, session_vars, query_vars, cache, holdings_data,
                   records_list, build_idx, barcodes_to_get, http_log,
                   env_fault>>
    /\ UNCHANGED <<calls, op, filled, copies, shelf, page>>
    /\ UNCHANGED <<tr_vars, net_vars, login_vars, loan_vars, gui_vars>>

\* tind.py:385-389  the barcodes of the rows of a record's holdings table
\* whose text holds 'on loan' or 'lost'.
NotOnShelf(id) ==
    {b \in 1..NumBarcodes : catalog[b] = id /\ shelf[b] \in {"on loan", "lost"}}

\* tind.py:390, 419-439, 103-109  Tind.records(to_get, self._session) for
\* the barcodes of those rows: an empty list gives [], and the raw record
\* of each barcode has the catalog id of the record itself, so
\* TindRecord(...) gives the object the cache holds for that id, once per
\* raw record.
CopiesResolved(id) ==
    [i \in 1..Cardinality(NotOnShelf(id)) |-> id]

\* tind.py:203-208, 375-392  the client reads copies_not_on_shelf of an
\* object: when the stored value is None, _fill_copies_not_on_shelf sets it
\* to [] and, when TindRecord._holdings_data holds the record's fragment,
\* to the records of the copies not on the shelf; the stored list is
\* returned.
ReadCopies ==
    /\ ClientReady
    /\ calls < MaxCalls
    /\ calls' = calls + 1
    /\ \E id \in DOMAIN cache :
          /\ op' = [kind |-> "copies", id |-> id,
                    field |-> "copies_not_on_shelf"]
          /\ IF copies[id].set
             THEN /\ pc' = "returned"
                  /\ UNCHANGED <<copies, outcome_vars>>
             ELSE IF id \notin DOMAIN holdings_data
             THEN \* 377, 391-392
                  /\ copies' = [copies EXCEPT ![id] =
                                   [set |-> TRUE, list |-> <<>>]]
                  /\ pc' = "returned"
                  /\ UNCHANGED outcome_vars
             ELSE IF holdings_data[id] = "empty"
             THEN \* 377, 381-382: no body in the document of ''
                  /\ copies' = [copies EXCEPT ![id] =
                                   [set |-> TRUE, list |-> <<>>]]
                  /\ RaiseToClient("AttributeError", 0)
             ELSE \* 377-390
                  /\ copies' = [copies EXCEPT ![id] =
                                   [set |-> TRUE, list |-> CopiesResolved(id)]]
                  /\ pc' = "returned"
                  /\ UNCHANGED outcome_vars
    /\ UNCHANGED <<file_vars, session_vars, query_vars, record_vars,
                   barcodes_to_get, http_log, env_fault>>
    /\ UNCHANGED <<filled, loans_done, named, patron_done, shelf, scrape_vars>>
    /\ UNCHANGED <<tr_vars, net_vars, login_vars, loan_vars, gui_vars>>

\* The operations of the client and the steps they lead to.
ClientNext ==
    \/ ClientRecords
    \/ RecordNew
    \/ NetKeywordCollision
    \/ HoldingsReturn
    \/ ReadRequester
    \/ LoanReturn
    \/ ReadCopies

(***************************************************************************)
(* checkit/tind.py: TindRecord._fill_loan_details on a loan-details page   *)
(***************************************************************************)

\* The largest number of rows after the header of a borrower table.
MaxRows == 3

\* tind.py:331  a row with fewer cells than this ends the scan.
ExpectedCells == 10

\* The texts of column 9 of a row, as sequences of characters: a date and a
\* time, a date alone, and no text.
DateTexts == {<<"7", " ", "9">>, <<"7", "8">>, <<>>}

\* The first cell of a row: the borrower's name and the target of its link.
Borrowers == {[name |-> "A. Reader", href |-> "/patron/1"],
              [name |-> "B. Reader", href |-> "/patron/2"]}

\* tind.py:329-340  what the scan reads of one row of the borrower table:
\* the number of its cells, the barcode of cell 5, the borrower of cell 0
\* and the text of cell 9.
LoanRows ==
    [cells : {ExpectedCells - 1, ExpectedCells}, barcode : 1..NumBarcodes,
     borrower : Borrowers, date : DateTexts]

\* The borrower tables of at most MaxRows rows.
LoanTables == UNION {[1..n -> LoanRows] : n \in 0..MaxRows}

\* str.find(ch): the index, counted from 0, of the first occurrence of ch
\* in text, and -1 when there is none.
Find(text, ch) ==
    LET hits == {i \in DOMAIN text : text[i] = ch}
    IN IF hits = {} THEN -1
       ELSE (CHOOSE i \in hits : \A j \in hits : i <= j) - 1

\* text[:end] of Python: the characters before index end, an index below
\* zero being counted from the end of the text.
SliceTo(text, end) ==
    LET n == Len(text)
        stop == IF end < 0 THEN (IF n + end < 0 THEN 0 ELSE n + end)
                ELSE (IF end > n THEN n ELSE end)
    IN SubSeq(text, 1, stop)

\* tind.py:340-343  the date of a date and time text.
DateOf(text) == SliceTo(text, Find(text, " "))

\* tind.py:308-310  the values that stand for "no hold request found".
NoRequester == [name |-> "", url |-> "", date |-> <<>>]

\* Before _fill_loan_details runs: the three fields are None (tind.py:189-191).
LoanIdle ==
    /\ loan_pc = "idle"
    /\ loan_rows = <<>>
    /\ loan_idx = 0
    /\ item_barcode = 0
    /\ requester = [name |-> "None", url |-> "None", date |-> <<>>]

\* _fill_loan_details is called on a record with a loan-details page that
\* has a borrower table (tind.py:312-328).
LoanInit ==
    /\ loan_pc = "fill"
    /\ loan_rows \in LoanTables
    /\ loan_idx = 0
    /\ item_barcode \in 1..NumBarcodes
    /\ requester = [name |-> "None", url |-> "None", date |-> <<>>]

\* What _fill_loan_details leaves alone.
loan_rest == <<tr_vars, net_vars, pc, barcode_list, catalog, barcodes_to_get,
               session, sessions_created, handshakes, handshake_session,
               http_log, net_calls, chunk_lo, data, replies, last_reply, cache,
               holdings_data, records_list, build_idx, tind_raised, alerts,
               informs, exception, output, output_written, env_fault,
               user, acc_user, use_keyring, keyring, dialog_initial, rejected,
               cred_reply, saml_outcome, logged_in, enrich_vars, scrape_vars,
               gui_vars>>

\* tind.py:308-310, 328-329  the fields get their "nothing found" values and
\* the loop starts with the row after the header.
LoanFillStart ==
    /\ loan_pc = "fill"
    /\ requester' = NoRequester
    /\ loan_idx' = 1
    /\ loan_pc' = "scan"
    /\ UNCHANGED <<loan_rows, item_barcode>>
    /\ UNCHANGED loan_rest

\* tind.py:329-347  one iteration of the loop over the rows: a short row
\* ends the scan (331-333), a row of another copy is passed over (335-336),
\* and the first row of this copy sets the three fields and ends the scan
\* (338-347).
LoanScanRow ==
    /\ loan_pc = "scan"
    /\ loan_idx <= Len(loan_rows)
    /\ LET row == loan_rows[loan_idx]
       IN IF row.cells < ExpectedCells
          THEN /\ loan_pc' = "done"
               /\ UNCHANGED <<loan_idx, requester>>
          ELSE IF row.barcode # item_barcode
          THEN /\ loan_idx' = loan_idx + 1
               /\ UNCHANGED <<loan_pc, requester>>
          ELSE /\ requester' = [name |-> row.borrower.name,
                                url |-> row.borrower.href,
                                date |-> DateOf(row.date)]
               /\ loan_pc' = "done"
               /\ UNCHANGED loan_idx
    /\ UNCHANGED <<loan_rows, item_barcode>>
    /\ UNCHANGED loan_rest

\* tind.py:329  the loop ends after the last row.
LoanScanEnd ==
    /\ loan_pc = "scan"
    /\ loan_idx > Len(loan_rows)
    /\ loan_pc' = "done"
    /\ UNCHANGED <<loan_idx, loan_rows, item_barcode, requester>>
    /\ UNCHANGED loan_rest

LoanNext ==
    \/ LoanFillStart
    \/ LoanScanRow
    \/ LoanScanEnd

(***************************************************************************)
(* checkit/control.py and checkit/messages.py: the GUI thread, the worker  *)
(* thread and the requests the worker makes of the interface               *)
(***************************************************************************)

\* The largest number of interface requests the worker makes in one run.
MaxRequests == 2

\* The methods through which the worker asks for a reply: error and fatal
\* (messages.py:146-176), yes_no (179-185), open_file and save_file
\* (control.py:172-191).
AlertKinds == {"error", "fatal"}
AskKinds == {"yes_no", "open_file", "save_file"}

\* The queue whose get() the worker blocks in after a request of a kind:
\* MessageHandlerGUI._queue (messages.py:128, 249-250), or the Queue that
\* open_file and save_file make (control.py:173, 178, 184, 189).
WaitFor(kind) == IF kind \in {"open_file", "save_file"} THEN "wait_file"
                 ELSE "wait_msg"

\* What running a GUI operation in the worker thread can do: control.py:36-39
\* 'it will either generate an exception or ... simply hang the
\* application'; the third outcome is that the dialog is shown.
OffThreadOutcomes == {"shown", "raised", "hung"}

\* control.py:135-156  ControlGUI.__init__ has shown the main frame and run
\* has started the worker and entered MainLoop.
GuiInit ==
    /\ gui_pc = "mainloop"
    /\ top_window = TRUE
    /\ events = <<>>
    /\ worker_pc = "run"
    /\ requests = 0
    /\ msg_queue = 0
    /\ file_queue = 0
    /\ put_count = 0
    /\ gui_ops = {}
    /\ quit_pc = "none"

\* No GUI: the values of these variables outside a run of ControlGUI.
GuiIdle ==
    /\ gui_pc = "none"
    /\ top_window = FALSE
    /\ events = <<>>
    /\ worker_pc = "none"
    /\ requests = 0
    /\ msg_queue = 0
    /\ file_queue = 0
    /\ put_count = 0
    /\ gui_ops = {}
    /\ quit_pc = "none"

\* What the threads of the GUI leave alone.
gui_rest == <<tr_vars, net_vars, pc, barcode_list, catalog, barcodes_to_get,
              session, sessions_created, handshakes, handshake_session,
              http_log, net_calls, chunk_lo, data, replies, last_reply, cache,
              holdings_data, records_list, build_idx, tind_raised, alerts,
              informs, exception, output, output_written, env_fault,
              user, acc_user, use_keyring, keyring, dialog_initial, rejected,
              cred_reply, saml_outcome, logged_in, enrich_vars, scrape_vars,
              loan_vars>>

\* messages.py:132-143  info and warn of the worker: the text is handed to
\* the GUI thread with wx.CallAfter and the worker goes on.
WorkerInfo ==
    /\ worker_pc = "run"
    /\ requests < MaxRequests
    /\ requests' = requests + 1
    /\ events' = Append(events, [fn |-> "progress_message", req |-> requests'])
    /\ put_count' = 0
    /\ UNCHANGED <<gui_pc, top_window, worker_pc, msg_queue, file_queue,
                   gui_ops, quit_pc>>
    /\ UNCHANGED gui_rest

\* messages.py:146-176  error and fatal of the worker: with a top window
\* _show_dialog is handed to the GUI thread with wx.CallAfter (149-150,
\* 167-170); without one the worker calls _show_dialog itself (151-153,
\* 171-175). Then the worker waits for an item of _queue (154, 176).
WorkerAlert ==
    /\ worker_pc = "run"
    /\ requests < MaxRequests
    /\ requests' = requests + 1
    /\ \E kind \in AlertKinds :
          IF top_window
          THEN /\ events' = Append(events, [fn |-> kind, req |-> requests'])
               /\ worker_pc' = WaitFor(kind)
               /\ put_count' = 0
               /\ UNCHANGED <<msg_queue, gui_ops>>
          ELSE /\ gui_ops' = gui_ops \cup {[fn |-> kind, by |-> "worker"]}
               /\ \E outcome \in OffThreadOutcomes :
                     /\ worker_pc' = IF outcome = "shown" THEN WaitFor(kind)
                                     ELSE IF outcome = "raised" THEN "finished"
                                     ELSE "hung"
                     /\ msg_queue' = IF outcome = "shown" THEN msg_queue + 1
                                     ELSE msg_queue
                     /\ put_count' = IF outcome = "shown" THEN 1 ELSE 0
               /\ UNCHANGED events
    /\ UNCHANGED <<gui_pc, top_window, file_queue, quit_pc>>
    /\ UNCHANGED gui_rest

\* messages.py:179-185, control.py:172-191  yes_no, open_file and save_file
\* of the worker: the dialog is handed to the GUI thread with wx.CallAfter,
\* whatever the state of the GUI, and the worker waits for an item of the
\* queue; open_file and save_file make a new queue for each call.
WorkerAsk ==
    /\ worker_pc = "run"
    /\ requests < MaxRequests
    /\ requests' = requests + 1
    /\ \E kind \in AskKinds :
          /\ events' = Append(events, [fn |-> kind, req |-> requests'])
          /\ worker_pc' = WaitFor(kind)
          /\ file_queue' = IF WaitFor(kind) = "wait_file" THEN 0 ELSE file_queue
    /\ put_count' = 0
    /\ UNCHANGED <<gui_pc, top_window, msg_queue, gui_ops, quit_pc>>
    /\ UNCHANGED gui_rest

\* messages.py:249-250, control.py:178, 189  queue.get() returns when the
\* queue has an item, and takes the item.
WorkerWake ==
    /\ \/ /\ worker_pc = "wait_msg"
          /\ msg_queue > 0
          /\ msg_queue' = msg_queue - 1
          /\ UNCHANGED file_queue
       \/ /\ worker_pc = "wait_file"
          /\ file_queue > 0
          /\ file_queue' = file_queue - 1
          /\ UNCHANGED msg_queue
    /\ worker_pc' = "run"
    /\ UNCHANGED <<gui_pc, top_window, events, requests, put_count, gui_ops,
                   quit_pc>>
    /\ UNCHANGED gui_rest

\* main_body.py:79-96  MainBody.run returns: the worker thread ends.
WorkerFinish ==
    /\ worker_pc = "run"
    /\ worker_pc' = "finished"
    /\ UNCHANGED <<gui_pc, top_window, events, requests, msg_queue,
                   file_queue, put_count, gui_ops, quit_pc>>
    /\ UNCHANGED gui_rest

\* control.py:304-324  the user asks to quit while MainLoop runs:
\* on_cancel_or_quit writes two progress messages itself and starts the
\* thread 'quitter'.
UserQuit ==
    /\ gui_pc = "mainloop"
    /\ top_window
    /\ quit_pc = "none"
    /\ quit_pc' = "sleeping"
    /\ gui_ops' = gui_ops \cup {[fn |-> "progress_message", by |-> "gui"]}
    /\ UNCHANGED <<gui_pc, top_window, events, worker_pc, requests, msg_queue,
                   file_queue, put_count>>
    /\ UNCHANGED gui_rest

\* control.py:317-320  quitter: after its sleep, the message 'quit' is
\* handed to the GUI thread with wx.CallAfter.
QuitterSend ==
    /\ quit_pc = "sleeping"
    /\ quit_pc' = "sent"
    /\ events' = Append(events, [fn |-> "quit", req |-> 0])
    /\ UNCHANGED <<gui_pc, top_window, worker_pc, requests, msg_queue,
                   file_queue, put_count, gui_ops>>
    /\ UNCHANGED gui_rest

\* MainLoop runs the next queued call in the GUI thread:
\* control.py:362-366 progress_message writes the text;
\* messages.py:201-235 _show_dialog, 238-246 _yes_no and control.py:369-393
\* open_file and save_file show their dialog and put one item on the queue
\* of the request; control.py:163-169 quit calls worker.stop(), which does
\* nothing (main_body.py:99-103), and queues the Destroy of the main frame;
\* Destroy leaves the application without a top window.
GuiDispatch ==
    /\ gui_pc = "mainloop"
    /\ events # <<>>
    /\ LET ev == Head(events)
       IN /\ IF ev.fn = "quit"
             THEN events' = Append(Tail(events), [fn |-> "Destroy", req |-> 0])
             ELSE events' = Tail(events)
          /\ top_window' = IF ev.fn = "Destroy" THEN FALSE ELSE top_window
          /\ gui_ops' = IF ev.fn = "quit" THEN gui_ops
                        ELSE gui_ops \cup {[fn |-> ev.fn, by |-> "gui"]}
          /\ msg_queue' = IF ev.fn \in AlertKinds \cup {"yes_no"}
                          THEN msg_queue + 1 ELSE msg_queue
          /\ file_queue' = IF ev.fn \in {"open_file", "save_file"}
                           THEN file_queue + 1 ELSE file_queue
          /\ put_count' = IF ev.fn \in AlertKinds \cup AskKinds
                          THEN put_count + 1 ELSE put_count
    /\ UNCHANGED <<gui_pc, worker_pc, requests, quit_pc>>
    /\ UNCHANGED gui_rest

\* control.py:156-157  MainLoop returns once the main frame is destroyed
\* and no queued call is left; run goes on to worker.join().
GuiLoopExit ==
    /\ gui_pc = "mainloop"
    /\ ~top_window
    /\ events = <<>>
    /\ gui_pc' = "join"
    /\ UNCHANGED <<top_window, events, worker_pc, requests, msg_queue,
                   file_queue, put_count, gui_ops, quit_pc>>
    /\ UNCHANGED gui_rest

\* control.py:158-160  worker.join() returns when the worker thread has
\* ended; run calls worker.stop() and returns.
GuiJoin ==
    /\ gui_pc = "join"
    /\ worker_pc = "finished"
    /\ gui_pc' = "returned"
    /\ UNCHANGED <<top_window, events, worker_pc, requests, msg_queue,
                   file_queue, put_count, gui_ops, quit_pc>>
    /\ UNCHANGED gui_rest

GuiNext ==
    \/ WorkerInfo
    \/ WorkerAlert
    \/ WorkerAsk
    \/ WorkerWake
    \/ WorkerFinish
    \/ UserQuit
    \/ QuitterSend
    \/ GuiDispatch
    \/ GuiLoopExit
    \/ GuiJoin

(***************************************************************************)
(* checkit/main_body.py: the rows of the output file                       *)
(***************************************************************************)

\* main_body.py:39-50  the titles of the columns of the output file, in
\* the order of the header row (main_body.py:159).
OUTPUT_COLUMNS ==
    <<"Flag", "Barcode", "Status", "Call number", "Copy number",
      "Location code", "Location name", "TIND id", "Item type",
      "Holdings total">>

\* ['n/a']*n
Repeated(x, n) == [i \in 1..n |-> x]

\* main_body.py:200-202  the row for a barcode without a record.
row_for_missing(barcode) ==
    <<"original", barcode>> \o Repeated("n/a", Len(OUTPUT_COLUMNS) - 1)

(***************************************************************************)
(* checkit/record.py and checkit/records.py: comparing records             *)
(***************************************************************************)

\* record.py:66-82  an ItemRecord with the fields of the raw record of a
\* barcode; of its fields the model keeps the two that identify it.
ItemRecordFor(b) ==
    [class |-> "ItemRecord", item_tind_id |-> catalog[b], item_barcode |-> b]

\* tind.py:308-310, 338-343  the requester names and the dates an
\* enrichment leaves in a record: '' when it found no hold request.
RequesterNames == {"", "A. Reader"}
RequestDates == {"", "2019-05-01"}

\* tind.py:123-147, 308-342  a TindRecord, which is a BaseRecord, with the
\* fields of the raw record of a barcode, after an enrichment.
TindRecordFor(b, name, date) ==
    [class |-> "TindRecord", item_tind_id |-> catalog[b], item_barcode |-> b,
     requester_name |-> name, date_requested |-> date]

\* record.py:90-92  ItemRecord.__eq__
\* (mutant: records are compared by their catalog record id)
ItemRecordEqByCatalogId(a, b) ==
    a.class = b.class /\ a.item_tind_id = b.item_tind_id
ItemRecordEq(a, b) ==
    a.class = b.class /\ a.item_barcode = b.item_barcode

\* record.py:86-87  ItemRecord.__hash__: the hash of the barcode, named
\* here by the value hashed.
ItemRecordHash(a) == a.item_barcode

\* records.py:64-67  BaseRecord.__eq__
BaseRecordEq(a, b) ==
    /\ a.item_barcode = b.item_barcode
    /\ a.requester_name = b.requester_name
    /\ a.date_requested = b.date_requested

\* records.py:60-61  BaseRecord.__hash__: the hash of the three values put
\* together, named here by the values hashed.
BaseRecordHash(a) == <<a.item_barcode, a.requester_name, a.date_requested>>

(***************************************************************************)
(* Specifications                                                          *)
(***************************************************************************)

\* One call of timed_request.
InitTimed == TimedInit /\ NetIdle /\ RunIdle /\ LoanIdle /\ GuiIdle
SpecTimed == InitTimed /\ [][TimedNext]_vars

\* One top-level call of net.
InitNet == NetInit /\ TimedIdle /\ RunIdle /\ LoanIdle /\ GuiIdle
SpecNet == InitNet /\ [][NetNext]_vars

\* One top-level call of net that keeps running until it ends: net is
\* sequential code, and every sleep and every call of timed_request in it
\* ends (network.py:68-111), so a step that can be taken is taken.
SpecNetFair == InitNet /\ [][NetNext]_vars /\ WF_vars(NetNext)

\* One call of _tind_json.
InitJson == JsonInit /\ TimedIdle /\ NetIdle /\ LoanIdle /\ GuiIdle
SpecJson == InitJson /\ [][JsonNext]_vars

\* One call of _tind_session by Tind.records.
InitSession == SessionInit /\ TimedIdle /\ NetIdle /\ LoanIdle /\ GuiIdle
SpecSession == InitSession /\ [][SessionNext]_vars

\* A client's calls of Tind.records in one process.
InitClient == ClientInit /\ TimedIdle /\ NetIdle /\ LoanIdle /\ GuiIdle
SpecClient == InitClient /\ [][ClientNext]_vars

\* One call of _fill_loan_details on a loan-details page.
InitLoans == LoanInit /\ TimedIdle /\ NetIdle /\ RunIdle /\ GuiIdle
SpecLoans == InitLoans /\ [][LoanNext]_vars

\* One run of ControlGUI with its worker thread.
InitGui == GuiInit /\ TimedIdle /\ NetIdle /\ RunIdle /\ LoanIdle
SpecGui == InitGui /\ [][GuiNext]_vars

\* The same run with threads that keep running: a thread that can take a
\* step takes one, and the user's request to quit is not a step that has to
\* happen.
SpecGuiFair ==
    /\ InitGui /\ [][GuiNext]_vars
    /\ WF_vars(WorkerInfo \/ WorkerAlert \/ WorkerAsk \/ WorkerWake \/ WorkerFinish)
    /\ WF_vars(GuiDispatch \/ GuiLoopExit \/ GuiJoin)
    /\ WF_vars(QuitterSend)

\* One run of MainBody.
Init == RunInit /\ TimedIdle /\ NetIdle /\ LoanIdle /\ GuiIdle
Spec == Init /\ [][Next]_vars

(***************************************************************************)
(* Claims about timed_request (checked under SpecTimed)                    *)
(***************************************************************************)

\* The pauses a call has made when it has made k of them: 10, 40, 90, ...
PausesUpTo(k) == [i \in 1..k |-> 10 * i * i]

\* C6 (state part): whenever the function is about to make an attempt, the
\* failures so far were counted consecutively (the count is the number of
\* attempts made modulo 3) and every earlier time the count reached 3 was
\* followed by exactly one pause, the k-th of 10*k*k seconds: before the
\* fourth attempt there is exactly the one pause of 10 seconds.
C6_PausesBeforeAttempt ==
    tr_pc = "attempt" =>
        /\ failures = attempts % 3
        /\ pauses = PausesUpTo(attempts \div 3)

\* C6 (step part): a step pauses only when the count has reached 3; it then
\* pauses exactly once, for 10*k*k seconds on the k-th pause, resets the
\* count to 0 and goes on to the next attempt.
C6_PauseStep ==
    pauses' # pauses =>
        /\ failures = 3
        /\ Len(pauses') = Len(pauses) + 1
        /\ SubSeq(pauses', 1, Len(pauses)) = pauses
        /\ pauses'[Len(pauses')] = 10 * Len(pauses') * Len(pauses')
        /\ failures' = 0
        /\ tr_pc' = "attempt"

C7_ReturnsOrRaises ==
    /\ tr_pc # "returned_none"
    /\ tr_pc = "returned" => response # NoResponse /\ raised = NoExc
    /\ tr_pc = "raised" =>
          /\ response = NoResponse
          /\ attempts = 18
          /\ Len(pauses) = 5
          /\ raised # NoExc
          /\ raised.at = 1

\* C7 witness: every attempt failed and the call has raised.
C7_Witness ==
    /\ tr_pc = "raised"
    /\ attempts = 18
    /\ raised.at = 1

(***************************************************************************)
(* Claims about net (checked under SpecNet)                                *)
(***************************************************************************)

\* C8: for every outcome of the underlying request (a response with any
\* status, a connection error of any kind including a connection reset, a
\* read timeout, an invalid schema, any other exception) net returns a pair
\* (response, error) and no exception leaves net; the error is None exactly
\* when no failure was classified.
C8_NoExceptionEscapes ==
    /\ net_pc # "escaped"
    /\ net_escaped = "None"
    /\ net_pc = "done" =>
          (net_result.err = "None" <=>
              /\ net_result.resp # NoResponse
              /\ 200 <= net_result.resp.status
              /\ net_result.resp.status < 400)

\* The outcome the claim C9 names for a status code.
C9_Claimed(code) ==
    IF code = 400 THEN "RequestError"
    ELSE IF code \in {401, 402, 403, 407, 451, 511} THEN "AuthFailure"
    ELSE IF code \in {404, 410} THEN "NoContent"
    ELSE IF code \in {415, 416, 500, 501, 502, 503, 506, 507, 508}
         THEN "ServiceFailure"
    ELSE IF 200 <= code /\ code < 400 THEN "None"
    ELSE "NetworkFailure"

\* The codes net classifies that the claim C9 does not list: the
\* malformed-request codes and the rate limit.
C9_OtherClassified ==
    {405, 406, 409, 411, 412, 414, 417, 428, 431, 505, 510, 429}

\* C9: with polling false, net maps each status code to exactly one outcome:
\* RequestError for 400; AuthFailure for 401, 402, 403, 407, 451, 511;
\* NoContent for 404 and 410; ServiceFailure for 415, 416, 500-503, 506-508;
\* no error for every code in [200,400); NetworkFailure for every code
\* outside [200,400) that net does not classify otherwise (it classifies the
\* malformed-request codes as InternalError and a persistent 429 as
\* RateLimitExceeded). The response is returned alongside the error.
C9_StatusMapping ==
    (net_pc = "done" /\ ~ polling /\ req # NoResponse) =>
        /\ net_result.resp = req
        /\ IF req.status \in C9_OtherClassified
           THEN net_result.err \in {"InternalError", "RateLimitExceeded"}
           ELSE net_result.err = C9_Claimed(req.status)

\* C9 witness: a response with status 451 was classified with polling false.
C9_Witness ==
    /\ net_pc = "done"
    /\ ~ polling
    /\ req = [status |-> 451]
    /\ net_result = [resp |-> req, err |-> "AuthFailure"]

\* C10: when polling is true net does not treat status 404 or 410 as an
\* error: it returns the response with error None.
C10_PollingIgnoresNotFound ==
    (net_pc = "done" /\ polling /\ req # NoResponse /\ req.status \in {404, 410}) =>
        net_result = [resp |-> req, err |-> "None"]

(***************************************************************************)
(* Claims about _tind_json (checked under SpecJson)                        *)
(***************************************************************************)

\* The last search request was answered with a recordsTotal that differs
\* from the number of entries of its data array.
CountMismatch ==
    /\ last_reply.status = 200
    /\ last_reply.total # last_reply.n

\* C4 (state part): after such an answer the query has raised
\* ServiceFailure and has returned nothing to Tind.records, which has no
\* record, not even of the earlier chunks.
C4_MismatchRaises ==
    CountMismatch =>
        /\ pc = "done"
        /\ tind_raised = "ServiceFailure"
        /\ records_list = <<>>

\* C4 (step part): after such an answer no further request is issued.
C4_NoLaterRequest == CountMismatch => http_log' = http_log

\* C4: if the response to any chunk's search request declares a
\* recordsTotal different from the number of entries in its data array, the
\* query raises ServiceFailure, returns no records (not even those of
\* earlier chunks), and issues no search request for any later chunk.
C4_CountMismatchIsFatal == [] C4_MismatchRaises /\ [][C4_NoLaterRequest]_vars

\* C4 witness: the second chunk's answer declared a wrong total after the
\* first chunk had given a record, a third chunk was still to ask, and the
\* query raised.
C4_Witness ==
    /\ CountMismatch
    /\ pc = "done"
    /\ tind_raised = "ServiceFailure"
    /\ Len(http_log) = 2
    /\ Len(data) >= 1
    /\ Len(barcodes_to_get) > 2 * 1000

RECURSIVE Flatten(_)
\* The concatenation of a sequence of sequences.
Flatten(ss) == IF ss = <<>> THEN <<>> ELSE Head(ss) \o Flatten(Tail(ss))

\* The barcode tuples of the search requests issued, in order.
SearchCodes == [i \in DOMAIN http_log |-> http_log[i].codes]

\* C5: when _tind_json returns for a list of n > 0 barcodes it has issued
\* exactly ceil(n/1000) search requests (3 for 2500 entries), each for at
\* least 1 and at most 1000 barcodes, the chunks covering the list in input
\* order with no barcode lost or repeated, and it returns the concatenation
\* of the chunk results in chunk order (result i holds records of barcodes
\* of chunk i only).
C5_Chunking ==
    pc = "build" =>
        LET n == Len(barcodes_to_get)
        IN /\ n > 0
           /\ \A i \in DOMAIN http_log : http_log[i].kind = "search"
           /\ Len(http_log) = (n + 999) \div 1000
           /\ n = 2500 => Len(http_log) = 3
           /\ \A i \in DOMAIN http_log :
                 Len(http_log[i].codes) >= 1 /\ Len(http_log[i].codes) <= 1000
           /\ Flatten(SearchCodes) = barcodes_to_get
           /\ Len(replies) = Len(http_log)
           /\ \A i \in DOMAIN replies : \A k \in DOMAIN replies[i] :
                 replies[i][k].barcode \in Range(http_log[i].codes)
           /\ data = Flatten(replies)

\* C5 witness: a list of 2500 barcodes was asked about in 3 requests and
\* the first and the last chunk both gave records.
C5_Witness ==
    /\ pc = "build"
    /\ Len(barcodes_to_get) = 2500
    /\ Len(http_log) = 3
    /\ Len(replies[1]) = 2
    /\ Len(replies[3]) = 1
    /\ Len(data) >= 3

(***************************************************************************)
(* Claims about a run of MainBody (checked under Spec)                     *)
(***************************************************************************)

\* The barcodes of the rows of the output file written for the input
\* positions (flag 'original', main_body.py:162, 165), in file order.
RECURSIVE PrimaryBarcodes(_)
PrimaryBarcodes(rows) ==
    IF rows = <<>> THEN <<>>
    ELSE IF Head(rows)[1] = "original"
         THEN <<Head(rows)[2]>> \o PrimaryBarcodes(Tail(rows))
         ELSE PrimaryBarcodes(Tail(rows))

\* The run is over and neither the network, the service nor the user made
\* it fail: the network is up, the input file is readable, the login is
\* given and accepted, and every request is answered as the service should.
RunEndedWithoutFault == pc = "done" /\ ~ env_fault

\* C1: each input barcode without a matching record produces exactly one
\* output row for that barcode; stated for the case the claim includes, in
\* which no barcode of a non-empty list matches any record: the run writes
\* an output file with one row per input barcode, in input order.
C1_UnmatchedRows ==
    (/\ RunEndedWithoutFault
     /\ barcode_list # <<>>
     /\ \A i \in DOMAIN barcode_list : catalog[barcode_list[i]] = 0) =>
        /\ output_written
        /\ PrimaryBarcodes(output) = barcode_list

\* C2: the output rows for the input barcodes appear in the order of the
\* input list, one primary row per input position, whatever order the
\* service returned the records in; stated for the runs in which every
\* barcode of a non-empty list has a record.
C2_RowsInInputOrder ==
    (/\ RunEndedWithoutFault
     /\ barcode_list # <<>>
     /\ \A i \in DOMAIN barcode_list : catalog[barcode_list[i]] # 0) =>
        /\ output_written
        /\ PrimaryBarcodes(output) = barcode_list

\* C3: within one run the handshake _tind_session completes at most once,
\* every search request and every call of a scrape method is made with the
\* session that handshake returned, and no handshake request follows a
\* search request.
C3_OneHandshake ==
    /\ handshakes <= 1
    /\ \A i \in DOMAIN http_log :
          http_log[i].kind = "search" =>
              /\ handshakes = 1
              /\ handshake_session # 0
              /\ http_log[i].session = handshake_session
              /\ \A j \in DOMAIN http_log :
                    j > i => http_log[j].kind = "search"
    /\ \A i \in DOMAIN net_calls :
          /\ handshakes = 1
          /\ handshake_session # 0
          /\ net_calls[i].session = handshake_session

\* C3 witness: after a rejected and an accepted login the handshake has
\* returned the second session, a search request was posted with it and a
\* holdings lookup was started with it.
C3_Witness ==
    /\ handshakes = 1
    /\ handshake_session = 2
    /\ \E i \in DOMAIN http_log :
          http_log[i].kind = "search" /\ http_log[i].session = 2
    /\ \E i \in DOMAIN net_calls : net_calls[i].session = 2

(***************************************************************************)
(* Claims about the retries of net (checked under SpecNetFair, SpecNet)    *)
(***************************************************************************)

\* The pauses of the first k rate-limit retries: 5, 10, 15, ...
RateLimitPausesUpTo(k) == [i \in 1..k |-> 5 * i]

\* C11 (state part): at recursion depth r the call has made r pauses of
\* 5, 10, ..., 5*r seconds, one after each of r requests (calls of
\* timed_request) answered 429; the depth never exceeds 10, so there are at
\* most 11 requests; and RateLimitExceeded is returned exactly when the
\* request at depth 10, the eleventh, was answered 429 as well.
C11_BoundedRetries ==
    /\ recursing <= 10
    /\ net_requests <= 11
    /\ net_sleeps = RateLimitPausesUpTo(recursing)
    /\ net_pc = "call" => net_requests = recursing
    /\ net_pc = "done" /\ ~ kw_redirect => net_requests = recursing + 1
    /\ net_result.err = "RateLimitExceeded" <=>
          (net_pc = "done" /\ req = [status |-> 429])
    /\ net_result.err = "RateLimitExceeded" =>
          /\ recursing = 10
          /\ net_requests = 11
          /\ net_result.resp = [status |-> 429]

\* C11 (step part): a pause is made only together with a request, is of
\* 5*(r+1) seconds at depth r, and is followed by a call of net one level
\* deeper with the same arguments; the step that returns RateLimitExceeded
\* makes no pause.
C11_PauseStep ==
    /\ net_sleeps' # net_sleeps =>
          /\ net_sleeps' = Append(net_sleeps, 5 * (recursing + 1))
          /\ net_requests' = net_requests + 1
          /\ recursing' = recursing + 1
          /\ net_pc' = "call"
          /\ polling' = polling
    /\ net_result'.err = "RateLimitExceeded" => net_sleeps' = net_sleeps

\* The top-level call of net has ended.
NetEnded == net_pc \in {"done", "escaped"}

\* C11: on status 429 net pauses 5*(r+1) seconds at recursion depth r and
\* issues the request again; after 10 retries a further 429 yields
\* RateLimitExceeded without another request, so one top-level call issues
\* at most 11 requests, and it always terminates.
C11_RateLimitRetry ==
    /\ [] C11_BoundedRetries
    /\ [][C11_PauseStep]_vars
    /\ <> NetEnded

\* C11 witness: ten requests were answered 429 and paused for 5, ..., 50
\* seconds, and the eleventh 429 was returned with RateLimitExceeded.
C11_Witness ==
    /\ net_pc = "done"
    /\ net_result = [resp |-> [status |-> 429], err |-> "RateLimitExceeded"]
    /\ net_requests = 11
    /\ Len(net_sleeps) = 10
    /\ net_sleeps[1] = 5
    /\ net_sleeps[10] = 50

\* C12: when the request fails with a connection reset (a ConnectionError
\* whose cause is a ProtocolError wrapping a ConnectionResetError) below
\* the recursion limit, net pauses for 1 second and calls itself one level
\* deeper to issue the request again, whose (response, error) result it
\* returns: the step of the reset neither ends the call nor lets an
\* exception out.
C12_ResetStep ==
    (/\ net_requests' = net_requests + 1
     /\ net_exc' = "ConnectionError_ProtocolError"
     /\ recursing < 10) =>
        /\ net_sleeps' = Append(net_sleeps, 1)
        /\ recursing' = recursing + 1
        /\ net_pc' = "call"
        /\ net_escaped' = "None"

C12_ConnectionResetRetried == [][C12_ResetStep]_vars

(***************************************************************************)
(* Claims about the handshake _tind_session (Spec, SpecSession)            *)
(***************************************************************************)

\* C13: if the login dialog is cancelled, or gives an empty user name or
\* password, the handshake fails with UserCancelled at once: the run's try
\* block has ended with UserCancelled, the last request sent is the GET of
\* the login page (no credentials were posted) and no search request was
\* issued.
C13_NoCredentialsIsCancel ==
    cred_reply \in {"cancel", "empty"} =>
        /\ pc = "done"
        /\ tind_raised = "UserCancelled"
        /\ http_log[Len(http_log)].kind = "shib_get"
        /\ \A i \in DOMAIN http_log : http_log[i].kind # "search"

\* C14: after a login attempt is rejected and the user answers yes to
\* trying again, the login dialog of the next attempt is not shown the
\* rejected user name and password as its initial values.
C14_PromptStep ==
    (pc = "sess_cred" /\ pc' # "sess_cred" /\ rejected # 0) =>
        dialog_initial' # rejected

C14_RejectedCredentialsCleared == [][C14_PromptStep]_vars

\* C15: if in the final step the answer has no form with an action, or
\* lacks the SAMLResponse or the RelayState input, or the final POST
\* returns a status other than 200, then _tind_session has raised
\* ServiceFailure and nothing else, no session was returned, and the step
\* was not tried again.
C15_FinalStepFailure ==
    saml_outcome \in {"no_form", "no_saml_response", "no_relay_state",
                      "bad_status"} =>
        /\ pc = "done"
        /\ tind_raised = "ServiceFailure"
        /\ exception = "None"
        /\ handshakes = 0
        /\ session = 0

(***************************************************************************)
(* Claims about the answers to search requests (SpecJson)                  *)
(***************************************************************************)

\* C16: when the search request of a chunk is answered with HTTP status 404
\* or 410, the chunk's result is empty and the query goes on: nothing is
\* raised, no alert is shown, and the empty result is the last of the
\* accepted results, one per request sent.
C16_NoContentChunkIsEmpty ==
    last_reply.status \in {404, 410} =>
        /\ pc \in {"json", "build"}
        /\ tind_raised = "None"
        /\ alerts = 0
        /\ Len(replies) = Len(http_log)
        /\ replies[Len(replies)] = <<>>

(***************************************************************************)
(* Claims about TindRecord objects (SpecClient)                            *)
(***************************************************************************)

\* The number of calls of a scrape method made for a record.
ScrapeCalls(what, id) ==
    Cardinality({i \in DOMAIN net_calls :
                    net_calls[i].what = what /\ net_calls[i].id = id})

\* The next TindRecord(r, ...) is for a catalog id that was seen before.
SeenBefore ==
    /\ pc = "build"
    /\ data # <<>>
    /\ data[build_idx].id_bibrec \in DOMAIN cache

\* C17 (step part): constructing a TindRecord for a catalog id seen before
\* gives the object of the cache, changes no field of any object, and
\* starts no holdings request.
C17_SecondConstruction ==
    SeenBefore =>
        /\ records_list' = Append(records_list, data[build_idx].id_bibrec)
        /\ cache' = cache
        /\ holdings_data' = holdings_data
        /\ net_calls' = net_calls
        /\ net_pc' = net_pc

\* C17 (state part): the cache holds one object per catalog id, the one
\* made for that id, and it is marked initialised; one holdings request was
\* started for it, by the construction that initialised it.
C17_OneObjectPerId ==
    /\ \A id \in DOMAIN cache :
          /\ cache[id].item_tind_id = id
          /\ cache[id].initialized
          /\ ScrapeCalls("holdings", id) = 1
    /\ \A i \in DOMAIN net_calls : net_calls[i].id \in DOMAIN cache

\* C17: constructing a TindRecord a second time from a raw record with an
\* already-seen catalog id returns the identical object: it is initialised
\* only once, the second construction issues no holdings request and
\* changes no field, and the cache holds at most one object per catalog id.
C17_CachedIdentity == [] C17_OneObjectPerId /\ [][C17_SecondConstruction]_vars

\* C17 witness: a construction from a raw record with another barcode of a
\* catalog id seen before has returned the cached object, whose barcode is
\* still the first one.
C17_Witness ==
    /\ pc = "main_holdings"
    /\ records_list = <<1>>
    /\ data[1].barcode = 2
    /\ cache[1].item_barcode = 1
    /\ Len(net_calls) = 1

\* C18 (construction): while the client's operation is a call of
\* Tind.records, every scrape call that is started is a holdings lookup:
\* constructing records requests no loan details and no patron details.
C18_ConstructionStep ==
    op'.kind = "records" =>
        \A i \in DOMAIN net_calls' :
            i > Len(net_calls) => net_calls'[i].what = "holdings"

\* C18 (first read): the read of any of the five requester properties of
\* an object that has not been filled marks it filled and requests its
\* loan details.
C18_FirstReadStep ==
    (/\ calls' = calls + 1
     /\ op'.kind = "read"
     /\ op'.id \notin filled) =>
        /\ op'.id \in filled'
        /\ net_calls' = Append(net_calls, [what |-> "loan_details",
                                           id |-> op'.id, session |-> session])

\* C18 (at most once): the loan details of a record were requested once if
\* the object is filled and never otherwise, and its patron details at most
\* once.
C18_LoanDetailsOnce ==
    \A id \in 1..NumTindIds :
        /\ ScrapeCalls("loan_details", id) = (IF id \in filled THEN 1 ELSE 0)
        /\ ScrapeCalls("patron_details", id) <= 1

\* C18: constructing a record issues no loan-details and no patron-details
\* request; the first read of requester name, email, type, url or
\* date-requested triggers enrichment; and across any sequence of reads of
\* those fields the loan-details page is requested at most once per record.
C18_LazyEnrichment ==
    /\ [] C18_LoanDetailsOnce
    /\ [][C18_ConstructionStep]_vars
    /\ [][C18_FirstReadStep]_vars

\* C18 witness: after the object of record 1 was made and a first read had
\* requested its loan details, a second read of a requester property has
\* returned without a second request.
C18_Witness ==
    /\ pc = "returned"
    /\ calls = 3
    /\ op.kind = "read"
    /\ op.id = 1
    /\ 1 \in filled
    /\ ScrapeCalls("loan_details", 1) = 1
    /\ ScrapeCalls("holdings", 1) = 1

\* C19: when a read of copies_not_on_shelf of a record has returned, the
\* list holds one record per row of the record's holdings table that is on
\* loan or lost, and the barcodes the listed records carry are those of
\* these rows.
C19_CopiesNotOnShelf ==
    (pc = "returned" /\ op.kind = "copies") =>
        LET rows == NotOnShelf(op.id)
            list == copies[op.id].list
        IN /\ copies[op.id].set
           /\ Len(list) = Cardinality(rows)
           /\ {cache[list[i]].item_barcode : i \in DOMAIN list} = rows

\* A scrape method has ended whose GET the service answers with 'page'.
ScrapeEnded(what) ==
    /\ scrape_result # "none"
    /\ net_calls # <<>>
    /\ net_calls[Len(net_calls)].what = what

\* What a scrape method is to give for the answer of the service.
ScrapeExpected(p) ==
    IF p.status >= 200 /\ p.status < 400
    THEN IF p.marker THEN "empty" ELSE "body"
    ELSE IF p.status \in {404, 410} THEN "empty"
    ELSE "ServiceFailure"

\* C20: holdings(id, session) and loan_details(id, session) return the
\* body when the GET is answered with a status in [200,400) and the body
\* lacks the empty marker, return the empty result when the body holds the
\* marker or the status is a no-content one (404, 410), and raise
\* ServiceFailure for every other answer.
C20_ScrapeResults ==
    (ScrapeEnded("holdings") \/ ScrapeEnded("loan_details")) =>
        scrape_result = ScrapeExpected(page)

(***************************************************************************)
(* Claims about how a run of MainBody ends (checked under Spec)            *)
(***************************************************************************)

\* An exception left the try block of main_body.py:130-133 around the
\* login and the queries.
QueryFailed == tind_raised # "None"

\* No output file was opened and no row written.
NoOutputTouched ==
    /\ ~ output_written
    /\ output = <<>>

\* C21: when the login or a query ended in an error, the run is over
\* there, before the output stage of main_body.py:151-174 that resolves the
\* output path, renames an existing file and writes: no file was opened or
\* written.
C21_ErrorAbortsBeforeOutput ==
    QueryFailed => (pc = "done" /\ NoOutputTouched)

\* C21 witness: the run was ended by a failed search request after a
\* completed handshake.
C21_Witness ==
    /\ pc = "done"
    /\ tind_raised = "ServiceFailure"
    /\ handshakes = 1
    /\ \E i \in DOMAIN http_log : http_log[i].kind = "search"
    /\ NoOutputTouched

\* The login dialog of the last credential entry was cancelled.
CredentialEntryCancelled == cred_reply = "cancel"

\* C22: when the user cancels the credential entry, the run stops with
\* UserCancelled and is not treated as a fault: no search request was
\* issued, nothing was written, MainBody.exception is None and no
\* alert_fatal was raised; the user is told the operation was cancelled.
C22_CancelIsNotAFault ==
    CredentialEntryCancelled =>
        /\ pc = "done"
        /\ tind_raised = "UserCancelled"
        /\ \A i \in DOMAIN http_log : http_log[i].kind # "search"
        /\ NoOutputTouched
        /\ exception = "None"
        /\ alerts = 0
        /\ informs = <<"User cancelled operation -- stopping.">>

\* C22 witness: the dialog of the second login attempt, after a rejected
\* login, was cancelled and the run is over.
C22_Witness ==
    /\ CredentialEntryCancelled
    /\ pc = "done"
    /\ sessions_created = 2
    /\ rejected # 0
    /\ exception = "None"

\* C23: a fatal condition that ends a run produces exactly one alert_fatal
\* notification: a run that has ended raised one alert_fatal if it ended in
\* a failure of the login or a query or stored an exception, and none
\* otherwise.
C23_OneFatalAlert ==
    pc = "done" =>
        alerts = IF tind_raised \in {"None", "UserCancelled"} /\ exception = "None"
                 THEN 0 ELSE 1

(***************************************************************************)
(* Claims about the scraped pages (checked under SpecClient)               *)
(***************************************************************************)

\* The page the service has for the scrape method that ran is empty: its
\* body holds the method's empty marker, or there is no page (404, 410).
EmptyPage == page.marker \/ page.status \in {404, 410}

\* C24: a holdings or loan page that is empty gives no enrichment data and
\* raises nothing: when Tind.holdings or Tind.loan_details has ended for
\* such a page, the operation that needed it (the construction of the
\* record, the read of a requester property) has not raised and goes on.
C24_EmptyPageDegrades ==
    ((ScrapeEnded("holdings") \/ ScrapeEnded("loan_details")) /\ EmptyPage) =>
        /\ scrape_result = "empty"
        /\ tind_raised = "None"
        /\ pc # "done"

(***************************************************************************)
(* Claims about the rows of the output file (checked under Spec)           *)
(***************************************************************************)

\* C25: the row for a missing record, for every barcode of the input list,
\* has as many fields as the header row has columns, with the barcode in
\* the column 'Barcode' and 'n/a' in every other column.
C25_MissingRowShape ==
    \A i \in DOMAIN barcode_list :
        LET row == row_for_missing(barcode_list[i])
        IN /\ Len(row) = Len(OUTPUT_COLUMNS)
           /\ \A k \in DOMAIN OUTPUT_COLUMNS :
                 IF OUTPUT_COLUMNS[k] = "Barcode"
                 THEN row[k] = barcode_list[i]
                 ELSE row[k] = "n/a"

(***************************************************************************)
(* Claims about the comparison of records (checked under Spec)             *)
(***************************************************************************)

\* The barcodes that have a record in the catalog.
Catalogued == {b \in DOMAIN catalog : catalog[b] # 0}

ItemRecordWith(id, b) ==
    [class |-> "ItemRecord", item_tind_id |-> id, item_barcode |-> b]
TindRecordWith(id, b, name, date) ==
    [class |-> "TindRecord", item_tind_id |-> id, item_barcode |-> b,
     requester_name |-> name, date_requested |-> date]

\* Equality and hash of ItemRecord, for all catalog ids and barcodes: equal
\* exactly when the barcodes are, and then with the same hash.
C26_ItemRecordLaw ==
    \A i1 \in 1..NumTindIds, i2 \in 1..NumTindIds,
       b1 \in 1..NumBarcodes, b2 \in 1..NumBarcodes :
        LET a == ItemRecordWith(i1, b1)
            b == ItemRecordWith(i2, b2)
        IN /\ ItemRecordEq(a, b) <=> (b1 = b2)
           /\ ItemRecordEq(a, b) => ItemRecordHash(a) = ItemRecordHash(b)

\* Equality and hash of BaseRecord, for TindRecord objects with all catalog
\* ids, barcodes, requester names and dates: equal exactly when barcode,
\* name and date are, and then with the same hash.
C26_BaseRecordLaw ==
    \A i1 \in 1..NumTindIds, i2 \in 1..NumTindIds,
       b1 \in 1..NumBarcodes, b2 \in 1..NumBarcodes,
       n1 \in RequesterNames, n2 \in RequesterNames,
       d1 \in RequestDates, d2 \in RequestDates :
        LET a == TindRecordWith(i1, b1, n1, d1)
            b == TindRecordWith(i2, b2, n2, d2)
        IN /\ BaseRecordEq(a, b) <=> (b1 = b2 /\ n1 = n2 /\ d1 = d2)
           /\ BaseRecordEq(a, b) => BaseRecordHash(a) = BaseRecordHash(b)

Follows(i, kind) ==
    /\ i > 1
    /\ http_log[i - 1].kind = kind
    /\ http_log[i - 1].session = http_log[i].session

\* C27 (requests): e1s1 directly follows the fetch of the login page of
\* its attempt, e1s2 follows that e1s1 and the SAML form POST that e1s2,
\* each with the session of the fetch; a fetch is the first request or
\* follows the e1s2 of the attempt before and has a session of its own; the
\* SAML form is posted only when the login was verified, and never in a
\* handshake that was cancelled.
C27_RequestOrder ==
    /\ \A i \in DOMAIN http_log :
          LET kind == http_log[i].kind
          IN /\ kind = "e1s1" => Follows(i, "shib_get")
             /\ kind = "e1s2" => Follows(i, "e1s1")
             /\ kind = "saml_post" => (Follows(i, "e1s2") /\ logged_in)
             /\ kind = "shib_get" =>
                   /\ i = 1 \/ http_log[i - 1].kind = "e1s2"
                   /\ \A j \in 1..(i - 1) :
                         http_log[j].session < http_log[i].session
    /\ tind_raised = "UserCancelled" =>
          \A i \in DOMAIN http_log : http_log[i].kind # "saml_post"

\* C27 (steps): the credentials are asked for when the last request is the
\* fetch of the attempt, and a request that follows the dialog is the e1s1
\* that posts the credentials the dialog gave.
C27_CredentialStep ==
    /\ SessCredentials =>
          /\ http_log # <<>>
          /\ http_log[Len(http_log)].kind = "shib_get"
          /\ http_log[Len(http_log)].session = sessions_created
    /\ (Len(http_log') > Len(http_log)
        /\ http_log'[Len(http_log')].kind = "e1s1") =>
          (cred_reply = "given" /\ user # 0)

\* C27: each login attempt fetches the login page, obtains the
\* credentials, posts e1s1 and e1s2 with the session id of its fetch and
\* verifies the answer, in this order, and the SAML form is posted only
\* after a verification that succeeded.
C27_LoginOrder == [] C27_RequestOrder /\ [][C27_CredentialStep]_vars

\* C27 witness: a rejected first attempt, an accepted second attempt and
\* the SAML form POST, seven requests with two sessions.
C27_Witness ==
    /\ Len(http_log) = 7
    /\ [i \in 1..7 |-> http_log[i].kind] =
          <<"shib_get", "e1s1", "e1s2", "shib_get", "e1s1", "e1s2", "saml_post">>
    /\ [i \in 1..7 |-> http_log[i].session] = <<1, 1, 1, 2, 2, 2, 2>>
    /\ logged_in

\* The number of requests of a kind in the first n entries of the log.
Issued(kind, n) ==
    Cardinality({i \in 1..n : http_log[i].kind = kind})

\* C28: the session is opened and the login page fetched once per
\* handshake, also when a rejected login is tried again.
C28_FetchOncePerHandshake ==
    /\ sessions_created <= 1
    /\ Issued("shib_get", Len(http_log)) <= 1

\* C28 (amended): a retry after a rejected login re-enters the handshake
\* at its start: every login attempt opens a session of its own and fetches
\* the login page with it, so that there are as many sessions and fetches
\* as login attempts, each e1s1 has the fetch of its own attempt before it,
\* and the request after a rejected e1s2 is the fetch of the next attempt.
C28_FetchPerAttempt ==
    /\ Issued("shib_get", Len(http_log)) = sessions_created
    /\ \A i \in DOMAIN http_log :
          /\ http_log[i].kind = "e1s1" =>
                /\ Issued("shib_get", i) = Issued("e1s1", i)
                /\ http_log[i].session = Issued("shib_get", i)
          /\ (http_log[i].kind = "e1s2" /\ i < Len(http_log)) =>
                \/ http_log[i + 1].kind = "saml_post"
                \/ /\ http_log[i + 1].kind = "shib_get"
                   /\ http_log[i + 1].session = http_log[i].session + 1
    /\ (rejected # 0 /\ pc = "sess_cred") =>
          http_log[Len(http_log)] = Request("shib_get", sessions_created, <<>>)

\* C28 witness: after a rejected login the second attempt has fetched the
\* login page with a second session and posted e1s1.
C28_Witness ==
    /\ rejected # 0
    /\ sessions_created = 2
    /\ Issued("shib_get", Len(http_log)) = 2
    /\ http_log[Len(http_log)] = Request("e1s1", 2, <<>>)

(***************************************************************************)
(* Claims about the guards of TindRecord (checked under SpecClient)        *)
(***************************************************************************)

\* The enrichment of a record was started and has not set the loan fields:
\* its request is under way, or it failed.
EnrichmentUnfinished(id) ==
    /\ ScrapeCalls("loan_details", id) > 0
    /\ id \notin loans_done

\* C29 (state): a record whose loan details have been requested is marked
\* filled, also while the request is under way and after it has failed.
C29_FilledBeforeRequest ==
    /\ \A i \in DOMAIN net_calls :
          net_calls[i].what \in {"loan_details", "patron_details"} =>
              net_calls[i].id \in filled
    /\ pc = "loan_details" => op.id \in filled

\* C29 (steps): no step of a running enrichment starts another enrichment,
\* and a read of a requester property of a record whose enrichment failed
\* returns without a request and without raising.
C29_NoSecondEnrichment ==
    /\ pc = "loan_details" =>
          \A i \in DOMAIN net_calls' :
              i > Len(net_calls) => net_calls'[i].what # "loan_details"
    /\ (/\ calls' = calls + 1
        /\ op'.kind = "read"
        /\ EnrichmentUnfinished(op'.id)) =>
          /\ net_calls' = net_calls
          /\ filled' = filled
          /\ pc' = "returned"
          /\ tind_raised' = tind_raised

\* C29: the filled guard of a record is set before any enrichment request
\* is made, so that a read of an enrichment field while the enrichment runs
\* or after it failed starts no second enrichment.
C29_GuardSetFirst ==
    [] C29_FilledBeforeRequest /\ [][C29_NoSecondEnrichment]_vars

\* C29 witness: the enrichment of record 1 failed (the loan details page
\* could not be fetched), and a later read of a requester property of the
\* record has returned.
C29_Witness ==
    /\ pc = "returned"
    /\ op.kind = "read"
    /\ op.id = 1
    /\ EnrichmentUnfinished(1)
    /\ scrape_result = "ServiceFailure"
    /\ net_calls[Len(net_calls)].what = "loan_details"

\* C30 (state): the holdings page of a catalog record was requested at
\* most once, and a fragment is held only for a record whose page was
\* requested.
C30_OneRequestPerId ==
    \A id \in 1..NumTindIds :
        /\ ScrapeCalls("holdings", id) <= 1
        /\ id \in DOMAIN holdings_data => ScrapeCalls("holdings", id) = 1

\* C30 (steps): a read of copies_not_on_shelf requests nothing and leaves
\* the stored fragments as they are.
C30_CopiesStep ==
    (calls' = calls + 1 /\ op'.kind = "copies") =>
        /\ net_calls' = net_calls
        /\ net_pc' = net_pc
        /\ holdings_data' = holdings_data

ReturnedBarcodes ==
    {cache[records_list[i]].item_barcode : i \in DOMAIN records_list}

\* C31 (step): when Tind.records has returned records and is called again, the
\* barcodes of the records it returned are served from the barcode cache:
\* they are not among the barcodes the new call asks the service about.
C31_BarcodeServedFromCache ==
    (/\ pc = "main_holdings"
     /\ op.kind = "records"
     /\ calls' = calls + 1
     /\ op'.kind = "records") =>
        \A i \in DOMAIN barcodes_to_get' :
            barcodes_to_get'[i] \notin ReturnedBarcodes

\* C31: a barcode for which Tind.records has returned a record is not
\* included in the search request of a later call of Tind.records.
C31_BarcodeCache == [][C31_BarcodeServedFromCache]_vars


(***************************************************************************)
(* Claims about the scan of the loan-details table (checked under          *)
(* SpecLoans)                                                              *)
(***************************************************************************)

\* The rows of the table that are about the record's copy.
MatchingRows == {i \in DOMAIN loan_rows : loan_rows[i].barcode = item_barcode}

\* Every row of the table has the cells the scan expects.
AllRowsWhole == \A i \in DOMAIN loan_rows : loan_rows[i].cells >= ExpectedCells

\* The hold that a row of the table describes.
HoldOfRow(i) ==
    [name |-> loan_rows[i].borrower.name, url |-> loan_rows[i].borrower.href,
     date |-> DateOf(loan_rows[i].date)]

\* C32: when the scan of a table with several rows of the record's barcode
\* has ended, the requester name, url and date of the record are those of
\* the last-listed of these rows.
C32_LastListedHold ==
    (loan_pc = "done" /\ AllRowsWhole /\ Cardinality(MatchingRows) >= 2) =>
        \E last \in MatchingRows :
            /\ \A i \in MatchingRows : i <= last
            /\ requester = HoldOfRow(last)

\* The text before the first space of a text, and the whole text when it
\* has no space.
BeforeFirstSpace(text) ==
    IF \E i \in DOMAIN text : text[i] = " "
    THEN SubSeq(text, 1,
                (CHOOSE i \in DOMAIN text :
                    /\ text[i] = " "
                    /\ \A j \in 1..(i - 1) : text[j] # " ") - 1)
    ELSE text

\* C33: when the scan has found a hold, date_requested is the text of
\* column 9 of the row cut at its first space, and the whole text when the
\* text has no space.
C33_DateCutAtFirstSpace ==
    (/\ loan_pc = "done"
     /\ loan_idx \in DOMAIN loan_rows
     /\ loan_rows[loan_idx].cells >= ExpectedCells
     /\ loan_rows[loan_idx].barcode = item_barcode) =>
        requester.date = BeforeFirstSpace(loan_rows[loan_idx].date)

(***************************************************************************)
(* Claims about the list Tind.records returns (checked under SpecClient)   *)
(***************************************************************************)

\* C35: the record at each position of the list Tind.records builds has the
\* barcode of the raw record at that position of the query result, also
\* when raw records of the result share a catalog record id.
C35_ListFollowsResult ==
    \A i \in DOMAIN records_list :
        /\ i \in DOMAIN data
        /\ cache[records_list[i]].item_barcode = data[i].barcode

\* C36: outside a construction that is waiting for its holdings request,
\* every object of the record cache that is marked initialised has an entry
\* in the holdings cache for its catalog record id.
C36_InitialisedHasHoldings ==
    pc # "holdings" =>
        \A id \in DOMAIN cache :
            cache[id].initialized => id \in DOMAIN holdings_data

(***************************************************************************)
(* Claims about AccessHandler.name_and_password (checked under SpecSession)*)
(***************************************************************************)

\* C37 (step): a step of name_and_password whose dialog is cancelled gives
\* the cancellation to its caller, which raises UserCancelled, and changes
\* neither the stored credentials of the handler nor the keyring entry.
C37_CancelStep ==
    (SessCredentials /\ cred_reply' = "cancel") =>
        /\ tind_raised' = "UserCancelled"
        /\ acc_user' = acc_user
        /\ keyring' = keyring

\* C37: when the login prompt is cancelled, name_and_password reports the
\* cancellation and leaves the handler's stored user name and password and
\* the keyring entry as they were.
C37_CancelKeepsCredentials == [][C37_CancelStep]_vars

\* C37 witness: a cancelled prompt that showed credentials taken from the
\* keyring, which are not the ones the handler has stored.
C37_Witness ==
    /\ cred_reply = "cancel"
    /\ tind_raised = "UserCancelled"
    /\ keyring # 0
    /\ dialog_initial # acc_user

(***************************************************************************)
(* Claims about the end of a run of MainBody (checked under Spec)          *)
(***************************************************************************)

\* C39: a run in which an authentication or query failure gave a fatal
\* alert does not report 'Done.'.
C39_NoDoneAfterFatalAlert ==
    (tind_raised \in {"ServiceFailure", "NetworkFailure"} /\ alerts > 0) =>
        \A i \in DOMAIN informs : informs[i] # "Done."

(***************************************************************************)
(* Claims about the GUI thread and the worker thread (checked under        *)
(* SpecGui and SpecGuiFair)                                                *)
(***************************************************************************)

\* C34: every GUI operation is executed by the GUI thread, none by the
\* worker, and at most one reply is put on the queue for a request of the
\* worker.
C34_WorkerKeepsOffGui ==
    /\ \A o \in gui_ops : o.by = "gui"
    /\ put_count <= 1

\* The worker waits for a reply to a request that it queued after MainLoop
\* had returned.
BlockedAfterLoop ==
    /\ gui_pc = "join"
    /\ worker_pc \in {"wait_msg", "wait_file"}
    /\ events # <<>>
    /\ msg_queue = 0
    /\ file_queue = 0

\* C38: once the user has asked to quit, ControlGUI.run returns: the worker
\* thread ends, so that worker.join() returns (the runs in which a dialog
\* shown by the worker thread itself has hung that thread are left aside).
C38_QuitEndsRun ==
    (quit_pc # "none") ~> (gui_pc = "returned" \/ worker_pc = "hung")
====
